---- MODULE Spec2Model ----
(***************************************************************************)
(* IoT anomaly detection: the scoring service (ml-server/server.py), the    *)
(* streaming pipeline (dataflow/pipeline.py), the trainer                  *)
(* (ml-trainer/trainer.py) and the consumer (data-consumer/consumer.py)    *)
(* as state machines.                                                      *)
(*                                                                         *)
(* Scoring service: the module globals, the Prometheus counters and the    *)
(* request handlers, each handler cut into steps at its accesses to shared *)
(* state so that concurrent requests interleave as Flask's threads do.     *)
(* Pipeline: run_pipeline's construction and execution of the Beam graph;  *)
(* the DoFns also applied to a message one after the other, their HTTP     *)
(* calls served by the scoring service.                                    *)
(* Trainer: train_models and the files it writes under model_dir; its      *)
(* evaluation and its z-scores also as functions applied to bounded        *)
(* inputs. Consumer: process_message on the subscriber's callback threads. *)
(***************************************************************************)
EXTENDS Integers, Sequences, FiniteSets, TLC

(***************************************************************************)
(* Bounds of the model                                                     *)
(***************************************************************************)
\* request threads of the concurrent specification
NumThreads == 2
\* requests started in one behaviour (caps every counter)
MaxCalls == 2
\* the wall clock runs from 0 to MaxClock
MaxClock == 1
\* messages published to the subscription in one behaviour
MaxMsgs == 3
\* callback threads of the consumer's subscriber
NumCallbacks == 2
\* messages delivered to the consumer in one behaviour
MaxDeliveries == 2
\* training runs started in one behaviour
MaxRuns == 2
\* largest cell of a confusion matrix
MaxCount == 2
\* the most rows of a training frame
MaxRows == 4

(***************************************************************************)
(* Program constants                                                       *)
(***************************************************************************)
\* pandas Timestamp.hour and Timestamp.dayofweek
HoursPerDay == 24
DaysPerWeek == 7

Threads == 1..NumThreads
Callbacks == 1..NumCallbacks

(***************************************************************************)
(* Python and JSON values                                                  *)
(***************************************************************************)
\* Python None (a global that was never assigned, a failed get_json)
None == [py |-> "None"]
\* JSON null, number, string; a string that holds the ISO-8601 form of the
\* instant t is kept by the instant it denotes
Null == [type |-> "null"]
Num(x) == [type |-> "number", n |-> x]
Str(s) == [type |-> "string", s |-> s]
IsoTime(t) == [type |-> "isotime", t |-> t]

IsNum(v) == v.type = "number"

\* dict.get(key, default): a dict is a function whose DOMAIN is its keys
Get(d, key, default) == IF key \in DOMAIN d THEN d[key] ELSE default

EmptyDict == <<>>

Abs(x) == IF x < 0 THEN -x ELSE x

(***************************************************************************)
(* Request bodies the clients send                                         *)
(***************************************************************************)
DeviceIdOpts == {EmptyDict, [device_id |-> Str("sensor_0001")]}
TimestampOpts == {EmptyDict, [timestamp |-> IsoTime(30)],
                  [timestamp |-> Str("not-a-date")]}
TemperatureOpts == {EmptyDict, [temperature |-> Null],
                    [temperature |-> Num(22)], [temperature |-> Num(40)]}
VibrationOpts == {EmptyDict, [vibration |-> Null],
                  [vibration |-> Num(1)], [vibration |-> Num(15)]}

\* every JSON object over the four keys of a reading, the empty object too
Payloads ==
    {d @@ ts @@ te @@ vi : d \in DeviceIdOpts, ts \in TimestampOpts,
                           te \in TemperatureOpts, vi \in VibrationOpts}

\* the payloads of the calls that are compared with each other: readings
\* with and without a timestamp, each signal normal, anomalous or absent
ScoringPayloads ==
    {[device_id |-> Str("sensor_0001")] @@ ts @@ te @@ vi :
        ts \in {EmptyDict, [timestamp |-> IsoTime(30)]},
        te \in {EmptyDict, [temperature |-> Num(22)], [temperature |-> Num(40)]},
        vi \in {EmptyDict, [vibration |-> Num(1)], [vibration |-> Num(15)]}}

\* a request without a body, sent with or without a JSON content type
NoBody(json_ctype) == [kind |-> "none", json_ctype |-> json_ctype]
JsonBody(d) == [kind |-> "json", value |-> d]

Bodies == {NoBody(c) : c \in BOOLEAN} \cup {JsonBody(d) : d \in Payloads}

\* the bodies of the concurrent specification: a normal reading, an
\* anomalous one, one whose temperature is null, and no body at all
ConcPayloads ==
    { [temperature |-> Num(22), vibration |-> Num(1)],
      [temperature |-> Num(40), vibration |-> Num(15)],
      [temperature |-> Null, vibration |-> Num(1)] }
ConcBodies == {NoBody(TRUE)} \cup {JsonBody(d) : d \in ConcPayloads}

Endpoints == {"/detect", "/detect/temperature", "/detect/vibration"}
\* every route of the two apps of server.py that a handler of the module serves
Routes == Endpoints \cup {"/alert", "/health", "/metrics", "/predict"}

\* bodies posted to /alert: none, the empty object, an alert
AlertBodies ==
    {NoBody(c) : c \in BOOLEAN} \cup
    {JsonBody(EmptyDict),
     JsonBody([device_id |-> Str("sensor_0001"),
               alert_type |-> Str("temperature"), temperature |-> Num(40)])}

\* validated bodies of POST /predict (PredictionRequest)
PredictionRequests ==
    {[temperature |-> Num(te), vibration |-> Num(vi), hour |-> Num(12),
      day_of_week |-> Num(3), temp_ma |-> Num(te), vibration_ma |-> Num(vi),
      temp_zscore |-> Num(0), vibration_zscore |-> Num(0)] :
         te \in {22, 80}, vi \in {1, 40}}

(***************************************************************************)
(* The persisted artifacts (ml-models/*.pkl). A fitted StandardScaler is   *)
(* its per-feature mean (unit scale); a fitted IsolationForest is reduced  *)
(* to a deterministic score that falls with the distance of the scaled     *)
(* point from the training centre, negative meaning anomalous.             *)
(***************************************************************************)
TemperatureModelPkl == [offset |-> 30]
TemperatureScalerPkl == [mean |-> <<22, 12, 3, 22, 0>>]
VibrationModelPkl == [offset |-> 20]
VibrationScalerPkl == [mean |-> <<1, 12, 3, 1, 0>>]

\* scaler.transform(X): fails on None (no attribute) and on a non-numeric cell
TransformRaises(scaler, X) ==
    scaler = None \/ \E i \in DOMAIN X : ~IsNum(X[i])
Transform(scaler, X) == [i \in DOMAIN X |-> X[i].n - scaler.mean[i]]

RECURSIVE SumAbs(_)
SumAbs(xs) == IF xs = <<>> THEN 0 ELSE Abs(Head(xs)) + SumAbs(Tail(xs))

\* model.decision_function(X_scaled)[0]
DecisionFunction(model, Xs) == model.offset - SumAbs(Xs)
\* model.predict(X_scaled)[0]: -1 for an anomaly, 1 for a normal point
Predict(model, Xs) == IF DecisionFunction(model, Xs) < 0 THEN -1 ELSE 1

(***************************************************************************)
(* request.get_json(). A JSON body yields its value. Without a body the    *)
(* JSON decoder fails under a JSON content type and Flask raises           *)
(* BadRequest; without the content type Flask returns None before 2.1 and  *)
(* raises UnsupportedMediaType from 2.1 on (raises415).                    *)
(***************************************************************************)
get_json(body, raises415) ==
    IF body.kind = "json"
    THEN [raised |-> FALSE, is_none |-> FALSE, data |-> body.value]
    ELSE IF body.json_ctype \/ raises415
         THEN [raised |-> TRUE, is_none |-> TRUE, data |-> EmptyDict]
         ELSE [raised |-> FALSE, is_none |-> TRUE, data |-> EmptyDict]

\* Python's "not data" for what get_json returns: None or an empty dict
Falsy(j) == j.is_none \/ DOMAIN j.data = {}

\* pd.to_datetime(...).hour and .dayofweek of the instant t (hours since a
\* Monday midnight)
Hour(t) == t % HoursPerDay
DayOfWeek(t) == (t \div HoursPerDay) % DaysPerWeek

\* pd.to_datetime fails on a string that is no date
ToDatetimeRaises(ts) == ts.type # "isotime"

\* prepare_features with data.get('temperature') and data.get('vibration')
\* called without their default
prepare_features_no_default(data, clock) ==
    LET ts == Get(data, "timestamp", IsoTime(clock))
        temperature == Get(data, "temperature", Null)
        vibration == Get(data, "vibration", Null)
    IN  IF ToDatetimeRaises(ts)
        THEN [ok |-> FALSE, f |-> EmptyDict]
        ELSE [ok |-> TRUE,
              f |-> [temperature |-> temperature,
                     vibration |-> vibration,
                     hour |-> Num(Hour(ts.t)),
                     day_of_week |-> Num(DayOfWeek(ts.t)),
                     temp_ma |-> temperature,
                     vibration_ma |-> vibration,
                     temp_zscore |-> Num(0),
                     vibration_zscore |-> Num(0)]]

(***************************************************************************)
(* prepare_features(data), called at the instant clock. ok = FALSE is the  *)
(* None it returns when anything in its try block raises.                  *)
(***************************************************************************)
prepare_features(data, clock) ==
    LET ts == Get(data, "timestamp", IsoTime(clock))
        temperature == Get(data, "temperature", Num(0))
        vibration == Get(data, "vibration", Num(0))
    IN  IF ToDatetimeRaises(ts)
        THEN [ok |-> FALSE, f |-> EmptyDict]
        ELSE [ok |-> TRUE,
              f |-> [temperature |-> temperature,
                     vibration |-> vibration,
                     hour |-> Num(Hour(ts.t)),
                     day_of_week |-> Num(DayOfWeek(ts.t)),
                     temp_ma |-> temperature,
                     vibration_ma |-> vibration,
                     temp_zscore |-> Num(0),
                     vibration_zscore |-> Num(0)]]

\* a temperature feature vector that takes in a vibration feature
temp_features_joint ==
    <<"temperature", "hour", "day_of_week", "vibration_ma", "temp_zscore">>

temp_features == <<"temperature", "hour", "day_of_week", "temp_ma", "temp_zscore">>
vibration_features ==
    <<"vibration", "hour", "day_of_week", "vibration_ma", "vibration_zscore">>
FeatureNames ==
    {"temperature", "vibration", "hour", "day_of_week", "temp_ma",
     "vibration_ma", "temp_zscore", "vibration_zscore"}

\* np.array([[features[f] for f in names]])
Select(features, names) == [i \in DOMAIN names |-> features[names[i]]]

(***************************************************************************)
(* One signal's scoring: scaler.transform, model.decision_function and     *)
(* model.predict(...) == -1. raised: an exception left the three calls.    *)
(***************************************************************************)
\* a scoring that answers with a neutral score when an artifact is missing
ScoreSignalDegenerate(scaler, model, X) ==
    IF scaler = None \/ model = None
    THEN [raised |-> FALSE, score |-> 0, is_anomaly |-> FALSE]
    ELSE IF TransformRaises(scaler, X)
    THEN [raised |-> TRUE, score |-> 0, is_anomaly |-> FALSE]
    ELSE [raised |-> FALSE,
          score |-> DecisionFunction(model, Transform(scaler, X)),
          is_anomaly |-> Predict(model, Transform(scaler, X)) = -1]

ScoreSignal(scaler, model, X) ==
    IF TransformRaises(scaler, X) \/ model = None
    THEN [raised |-> TRUE, score |-> 0, is_anomaly |-> FALSE]
    ELSE [raised |-> FALSE,
          score |-> DecisionFunction(model, Transform(scaler, X)),
          is_anomaly |-> Predict(model, Transform(scaler, X)) = -1]

\* an increment that reads the value, then writes it back: the second of
\* two overlapping increments is lost
IncLost(v) == IF v = 0 THEN 1 ELSE v

\* Counter.inc() and Histogram.observe(): prometheus_client updates the
\* value under the metric's lock, so one call is one atomic step
Inc(v) == v + 1

\* flask responses
Resp(status, body) == [status |-> status, body |-> body]
NoResp == [status |-> 0, body |-> EmptyDict]
ErrModelsNotLoaded == Resp(500, [error |-> "Models not loaded"])
ErrNoData == Resp(400, [error |-> "No data provided"])
ErrFeatures == Resp(500, [error |-> "Failed to prepare features"])
ErrInternal == Resp(500, [error |-> "Internal server error"])

(***************************************************************************)
(* State                                                                   *)
(***************************************************************************)
VARIABLES
    \* the scoring service: the process phase, the wall clock, and whether
    \* the installed Flask raises on a request without a JSON content type
    phase, now, flask415,
    \* module globals of server.py
    temp_model, temp_scaler, vibration_model, vibration_scaler,
    \* Prometheus counters, and the observation counts of the two histograms
    ml_predictions_total, ml_predictions_success_total,
    ml_anomalies_detected_total, ml_temperature_anomalies_total,
    ml_vibration_anomalies_total, ml_prediction_duration, http_request_duration,
    \* per request thread: position in the handler, the request, the
    \* handler's locals, the response returned
    pc, req, loc, resp,
    \* history: requests started; per thread what the running call has done
    \* to the metrics and the response of the call before it when that call
    \* carried the identical request; completed calls per endpoint and status
    calls, did, prev, done,
    \* the pipeline: position in run_pipeline, transforms applied to the
    \* Pipeline object, the graph that run() executed, the subscription,
    \* the records with the stages that processed them, the sink
    ppc, graph, ran, subscription, records, sink,
    \* the alerts posted and the errors printed by the pipeline
    alerts, diagnostics,
    \* the trainer: position in train_models, the files of model_dir (the
    \* run that wrote each), runs started, the table queried; history of
    \* the running run: stages entered, stages that raised, log records,
    \* and the files as the run found them
    tpc, files, runs, table, tstages, tfailed, tlog, files0,
    \* a function applied on its own: the function, its input and what it
    \* returned
    applied,
    \* the consumer: the callback each thread of the subscriber's pool is
    \* running, the messages settled, with what was done to each, and the
    \* rows of the BigQuery table
    delivery, settled, inserted

serverVars ==
    <<phase, now, flask415, temp_model, temp_scaler, vibration_model,
      vibration_scaler, ml_predictions_total, ml_predictions_success_total,
      ml_anomalies_detected_total, ml_temperature_anomalies_total,
      ml_vibration_anomalies_total, ml_prediction_duration,
      http_request_duration, pc, req, loc, resp, calls, did, prev, done>>
pipelineVars ==
    <<ppc, graph, ran, subscription, records, sink, alerts, diagnostics>>
trainerVars == <<tpc, files, runs, table, tstages, tfailed, tlog, files0>>
functionVars == <<applied>>
consumerVars == <<delivery, settled, inserted>>
vars == <<serverVars, pipelineVars, trainerVars, functionVars, consumerVars>>

globals == <<temp_model, temp_scaler, vibration_model, vibration_scaler>>
counters ==
    <<ml_predictions_total, ml_predictions_success_total,
      ml_anomalies_detected_total, ml_temperature_anomalies_total,
      ml_vibration_anomalies_total>>
histograms == <<ml_prediction_duration, http_request_duration>>

NoReq == [endpoint |-> "", body |-> NoBody(FALSE)]
NoLoc ==
    [data |-> EmptyDict, features |-> EmptyDict, temp_anomaly_score |-> 0,
     vibration_anomaly_score |-> 0, is_temp_anomaly |-> FALSE,
     is_vibration_anomaly |-> FALSE]
NoDid == [total |-> 0, success |-> 0, timed |-> 0, observed |-> 0]
Statuses == {200, 400, 500}

ServerInit ==
    /\ phase = "startup"
    /\ now = 0
    /\ flask415 \in BOOLEAN
    /\ temp_model = None
    /\ temp_scaler = None
    /\ vibration_model = None
    /\ vibration_scaler = None
    /\ ml_predictions_total = 0
    /\ ml_predictions_success_total = 0
    /\ ml_anomalies_detected_total = 0
    /\ ml_temperature_anomalies_total = 0
    /\ ml_vibration_anomalies_total = 0
    /\ ml_prediction_duration = 0
    /\ http_request_duration = 0
    /\ pc = [t \in Threads |-> "idle"]
    /\ req = [t \in Threads |-> NoReq]
    /\ loc = [t \in Threads |-> NoLoc]
    /\ resp = [t \in Threads |-> NoResp]
    /\ calls = 0
    /\ did = [t \in Threads |-> NoDid]
    /\ prev = [t \in Threads |-> NoResp]
    /\ done = [e \in Routes, s \in Statuses |-> 0]

(***************************************************************************)
(* Startup                                                                 *)
(***************************************************************************)
\* load_models(): the four joblib.load calls in order, the first k of them
\* succeeding; an exception leaves the globals assigned so far in place
load_models(k) ==
    /\ temp_model' = IF k >= 1 THEN TemperatureModelPkl ELSE temp_model
    /\ temp_scaler' = IF k >= 2 THEN TemperatureScalerPkl ELSE temp_scaler
    /\ vibration_model' = IF k >= 3 THEN VibrationModelPkl ELSE vibration_model
    /\ vibration_scaler' = IF k >= 4 THEN VibrationScalerPkl ELSE vibration_scaler
\* its return value
LoadedOk(k) == k = 4

frame == /\ UNCHANGED <<now, flask415, counters, histograms, pc, req, loc, resp>>
         /\ UNCHANGED <<calls, did, prev, done, pipelineVars, trainerVars, functionVars, consumerVars>>

\* python server.py: exit(1) when load_models() returns False, else app.run
Main(k) ==
    /\ phase = "startup"
    /\ load_models(k)
    /\ phase' = IF LoadedOk(k) THEN "serving" ELSE "exited"
    /\ frame

\* the module imported and its app served without a call of load_models()
WsgiServe ==
    /\ phase = "startup"
    /\ phase' = "serving"
    /\ UNCHANGED globals
    /\ frame

\* the wall clock advances
Tick ==
    /\ phase = "serving"
    /\ now < MaxClock
    /\ now' = now + 1
    /\ UNCHANGED <<phase, flask415, globals, counters, histograms>>
    /\ UNCHANGED <<pc, req, loc, resp, calls, did, prev, done, pipelineVars, trainerVars, functionVars, consumerVars>>

(***************************************************************************)
(* Request handling, common parts                                          *)
(***************************************************************************)
\* a request arrives at an idle thread t
Arrive(t, endpoint, body) ==
    /\ phase = "serving"
    /\ pc[t] = "idle"
    /\ calls < MaxCalls
    /\ calls' = calls + 1
    /\ req' = [req EXCEPT ![t] = [endpoint |-> endpoint, body |-> body]]
    /\ prev' = [prev EXCEPT ![t] =
                   IF req[t] = [endpoint |-> endpoint, body |-> body]
                   THEN resp[t] ELSE NoResp]

\* the handler returns r and the request is over
Return(t, endpoint, r) ==
    /\ resp' = [resp EXCEPT ![t] = r]
    /\ pc' = [pc EXCEPT ![t] = "idle"]
    /\ done' = [done EXCEPT ![endpoint, r.status] = @ + 1]

\* the handler has its response r and goes to its finally block
ToFinally(t, r) ==
    /\ resp' = [resp EXCEPT ![t] = r]
    /\ pc' = [pc EXCEPT ![t] = "finally"]

Goto(t, label) == pc' = [pc EXCEPT ![t] = label]

\* a finally block that also drops a model
FinallyUnloads(t) ==
    /\ pc[t] = "finally"
    /\ http_request_duration' = Inc(http_request_duration)
    /\ did' = [did EXCEPT ![t].observed = @ + 1]
    /\ pc' = [pc EXCEPT ![t] = "idle"]
    /\ done' = [done EXCEPT ![req[t].endpoint, resp[t].status] = @ + 1]
    /\ temp_model' = None
    /\ UNCHANGED <<temp_scaler, vibration_model, vibration_scaler>>
    /\ UNCHANGED <<phase, flask415, now, counters, ml_prediction_duration>>
    /\ UNCHANGED <<req, loc, resp, calls, prev, pipelineVars, trainerVars, functionVars, consumerVars>>

\* finally: http_request_duration.observe(...), then the response goes out
Finally(t) ==
    /\ pc[t] = "finally"
    /\ http_request_duration' = Inc(http_request_duration)
    /\ did' = [did EXCEPT ![t].observed = @ + 1]
    /\ pc' = [pc EXCEPT ![t] = "idle"]
    /\ done' = [done EXCEPT ![req[t].endpoint, resp[t].status] = @ + 1]
    /\ UNCHANGED <<phase, flask415, now, globals, counters, ml_prediction_duration>>
    /\ UNCHANGED <<req, loc, resp, calls, prev, pipelineVars, trainerVars, functionVars, consumerVars>>

(***************************************************************************)
(* POST /detect: detect_anomalies                                          *)
(***************************************************************************)
\* lines 214-216: the models-loaded check
ModelsNotLoaded == temp_model = None \/ vibration_model = None

\* the request arrives; refused before any metric when a model is missing
DetectStart(t, body) ==
    /\ Arrive(t, "/detect", body)
    /\ did' = [did EXCEPT ![t] = NoDid]
    /\ loc' = [loc EXCEPT ![t] = NoLoc]
    /\ IF ModelsNotLoaded
       THEN ToFinally(t, ErrModelsNotLoaded)
       ELSE /\ Goto(t, "inc_total")
            /\ resp' = [resp EXCEPT ![t] = NoResp]
    /\ UNCHANGED <<phase, flask415, now, globals, counters, histograms, done>>
    /\ UNCHANGED <<pipelineVars, trainerVars, functionVars, consumerVars>>

\* ml_predictions_total.inc(), then get_json and the empty-data check
DetectIncTotal(t) ==
    /\ pc[t] = "inc_total"
    /\ req[t].endpoint = "/detect"
    /\ ml_predictions_total' = Inc(ml_predictions_total)
    /\ did' = [did EXCEPT ![t].total = @ + 1]
    /\ LET j == get_json(req[t].body, flask415)
       IN  IF j.raised THEN ToFinally(t, ErrInternal) /\ UNCHANGED loc
           ELSE IF Falsy(j) THEN ToFinally(t, ErrNoData) /\ UNCHANGED loc
           ELSE /\ Goto(t, "score")
                /\ loc' = [loc EXCEPT ![t].data = j.data]
                /\ UNCHANGED resp
    /\ UNCHANGED <<phase, flask415, now, globals, histograms, req, calls, prev, done>>
    /\ UNCHANGED <<ml_predictions_success_total, ml_anomalies_detected_total,
                   ml_temperature_anomalies_total, ml_vibration_anomalies_total>>
    /\ UNCHANGED <<pipelineVars, trainerVars, functionVars, consumerVars>>

\* the block timed by ml_prediction_duration: prepare_features and the two
\* signals' scoring; the timer observes however the block is left
DetectScore(t) ==
    /\ pc[t] = "score"
    /\ req[t].endpoint = "/detect"
    /\ ml_prediction_duration' = Inc(ml_prediction_duration)
    /\ did' = [did EXCEPT ![t].timed = @ + 1]
    /\ LET features == prepare_features(loc[t].data, now)
           te == ScoreSignal(temp_scaler, temp_model,
                             Select(features.f, temp_features))
           vi == ScoreSignal(vibration_scaler, vibration_model,
                             Select(features.f, vibration_features))
       IN  IF ~features.ok THEN ToFinally(t, ErrFeatures) /\ UNCHANGED loc
           ELSE /\ loc' = [loc EXCEPT ![t] =
                      [data |-> loc[t].data,
                       features |-> features.f,
                       temp_anomaly_score |-> te.score,
                       vibration_anomaly_score |->
                           IF te.raised THEN 0 ELSE vi.score,
                       is_temp_anomaly |-> te.is_anomaly,
                       is_vibration_anomaly |->
                           IF te.raised THEN FALSE ELSE vi.is_anomaly]]
                /\ IF te.raised \/ vi.raised
                   THEN ToFinally(t, ErrInternal)
                   ELSE Goto(t, "inc_anomalies") /\ UNCHANGED resp
    /\ UNCHANGED <<phase, flask415, now, globals, counters, http_request_duration>>
    /\ UNCHANGED <<req, calls, prev, done, pipelineVars, trainerVars, functionVars, consumerVars>>

\* lines 249-251 without the increment
DetectSkipAnomalies(t) ==
    /\ pc[t] = "inc_anomalies"
    /\ req[t].endpoint = "/detect"
    /\ Goto(t, "inc_temperature")
    /\ UNCHANGED <<phase, flask415, now, globals, histograms, req, loc, resp>>
    /\ UNCHANGED counters
    /\ UNCHANGED <<calls, did, prev, done, pipelineVars, trainerVars, functionVars, consumerVars>>

\* lines 249-251
DetectIncAnomalies(t) ==
    /\ pc[t] = "inc_anomalies"
    /\ req[t].endpoint = "/detect"
    /\ ml_anomalies_detected_total' =
           IF loc[t].is_temp_anomaly \/ loc[t].is_vibration_anomaly
           THEN Inc(ml_anomalies_detected_total)
           ELSE ml_anomalies_detected_total
    /\ Goto(t, "inc_temperature")
    /\ UNCHANGED <<phase, flask415, now, globals, histograms, req, loc, resp>>
    /\ UNCHANGED <<ml_predictions_total, ml_predictions_success_total,
                   ml_temperature_anomalies_total, ml_vibration_anomalies_total>>
    /\ UNCHANGED <<calls, did, prev, done, pipelineVars, trainerVars, functionVars, consumerVars>>

\* lines 252-254
DetectIncTemperature(t) ==
    /\ pc[t] = "inc_temperature"
    /\ req[t].endpoint = "/detect"
    /\ ml_temperature_anomalies_total' =
           IF loc[t].is_temp_anomaly
           THEN Inc(ml_temperature_anomalies_total)
           ELSE ml_temperature_anomalies_total
    /\ Goto(t, "inc_vibration")
    /\ UNCHANGED <<phase, flask415, now, globals, histograms, req, loc, resp>>
    /\ UNCHANGED <<ml_predictions_total, ml_predictions_success_total,
                   ml_anomalies_detected_total, ml_vibration_anomalies_total>>
    /\ UNCHANGED <<calls, did, prev, done, pipelineVars, trainerVars, functionVars, consumerVars>>

\* lines 255-257
DetectIncVibration(t) ==
    /\ pc[t] = "inc_vibration"
    /\ req[t].endpoint = "/detect"
    /\ ml_vibration_anomalies_total' =
           IF loc[t].is_vibration_anomaly
           THEN Inc(ml_vibration_anomalies_total)
           ELSE ml_vibration_anomalies_total
    /\ Goto(t, "result")
    /\ UNCHANGED <<phase, flask415, now, globals, histograms, req, loc, resp>>
    /\ UNCHANGED <<ml_predictions_total, ml_predictions_success_total,
                   ml_anomalies_detected_total, ml_temperature_anomalies_total>>
    /\ UNCHANGED <<calls, did, prev, done, pipelineVars, trainerVars, functionVars, consumerVars>>

\* the aggregate verdict taken as "both signals anomalous"
IsAnomalyAnd(is_temp_anomaly, is_vibration_anomaly) ==
    is_temp_anomaly /\ is_vibration_anomaly

\* the aggregate verdict of line 268
IsAnomaly(is_temp_anomaly, is_vibration_anomaly) ==
    is_temp_anomaly \/ is_vibration_anomaly

\* the result with data.get('device_id') called without its default
DetectResultBodyNoDefault(data, l, clock) ==
    [device_id |-> Get(data, "device_id", Null),
     timestamp |-> Get(data, "timestamp", IsoTime(clock)),
     temperature |-> l.features["temperature"],
     vibration |-> l.features["vibration"],
     temp_anomaly_score |-> l.temp_anomaly_score,
     vibration_anomaly_score |-> l.vibration_anomaly_score,
     is_temp_anomaly |-> l.is_temp_anomaly,
     is_vibration_anomaly |-> l.is_vibration_anomaly,
     is_anomaly |-> l.is_temp_anomaly \/ l.is_vibration_anomaly]

\* the result stamped with the time of the response whatever the payload
DetectResultBodyStamped(data, l, clock) ==
    [device_id |-> Get(data, "device_id", Str("unknown")),
     timestamp |-> IsoTime(clock),
     temperature |-> l.features["temperature"],
     vibration |-> l.features["vibration"],
     temp_anomaly_score |-> l.temp_anomaly_score,
     vibration_anomaly_score |-> l.vibration_anomaly_score,
     is_temp_anomaly |-> l.is_temp_anomaly,
     is_vibration_anomaly |-> l.is_vibration_anomaly,
     is_anomaly |-> l.is_temp_anomaly \/ l.is_vibration_anomaly]

\* lines 259-269: the result, built at the instant clock
DetectResultBody(data, l, clock) ==
    [device_id |-> Get(data, "device_id", Str("unknown")),
     timestamp |-> Get(data, "timestamp", IsoTime(clock)),
     temperature |-> l.features["temperature"],
     vibration |-> l.features["vibration"],
     temp_anomaly_score |-> l.temp_anomaly_score,
     vibration_anomaly_score |-> l.vibration_anomaly_score,
     is_temp_anomaly |-> l.is_temp_anomaly,
     is_vibration_anomaly |-> l.is_vibration_anomaly,
     is_anomaly |-> IsAnomaly(l.is_temp_anomaly, l.is_vibration_anomaly)]

\* the result is built, ml_predictions_success_total.inc(), return 200
DetectResult(t) ==
    /\ pc[t] = "result"
    /\ req[t].endpoint = "/detect"
    /\ ml_predictions_success_total' = Inc(ml_predictions_success_total)
    /\ did' = [did EXCEPT ![t].success = @ + 1]
    /\ ToFinally(t, Resp(200, DetectResultBody(loc[t].data, loc[t], now)))
    /\ UNCHANGED <<phase, flask415, now, globals, histograms, req, loc>>
    /\ UNCHANGED <<ml_predictions_total, ml_anomalies_detected_total,
                   ml_temperature_anomalies_total, ml_vibration_anomalies_total>>
    /\ UNCHANGED <<calls, prev, done, pipelineVars, trainerVars, functionVars, consumerVars>>

detect_anomalies(t) ==
    \/ DetectIncTotal(t)
    \/ DetectScore(t)
    \/ DetectIncAnomalies(t)
    \/ DetectIncTemperature(t)
    \/ DetectIncVibration(t)
    \/ DetectResult(t)

(***************************************************************************)
(* POST /detect/temperature: detect_temperature_anomaly                    *)
(***************************************************************************)
\* lines 118-124: ml_predictions_total.inc() comes first, then get_json
TemperatureStart(t, body) ==
    /\ Arrive(t, "/detect/temperature", body)
    /\ ml_predictions_total' = Inc(ml_predictions_total)
    /\ did' = [did EXCEPT ![t] = [NoDid EXCEPT !.total = 1]]
    /\ loc' = [loc EXCEPT ![t] = NoLoc]
    /\ LET j == get_json(body, flask415)
       IN  IF j.raised THEN ToFinally(t, ErrInternal)
           ELSE IF Falsy(j) THEN ToFinally(t, ErrNoData)
           ELSE /\ Goto(t, "score")
                /\ resp' = [resp EXCEPT ![t] = NoResp]
    /\ UNCHANGED <<phase, flask415, now, globals, histograms, done>>
    /\ UNCHANGED <<ml_predictions_success_total, ml_anomalies_detected_total,
                   ml_temperature_anomalies_total, ml_vibration_anomalies_total>>
    /\ UNCHANGED <<pipelineVars, trainerVars, functionVars, consumerVars>>

\* lines 126-142: the timed block, the temperature signal alone
TemperatureScore(t) ==
    /\ pc[t] = "score"
    /\ req[t].endpoint = "/detect/temperature"
    /\ ml_prediction_duration' = Inc(ml_prediction_duration)
    /\ did' = [did EXCEPT ![t].timed = @ + 1]
    /\ LET data == req[t].body.value
           features == prepare_features(data, now)
           te == ScoreSignal(temp_scaler, temp_model,
                             Select(features.f, temp_features))
       IN  IF ~features.ok THEN ToFinally(t, ErrFeatures) /\ UNCHANGED loc
           ELSE /\ loc' = [loc EXCEPT ![t] =
                      [NoLoc EXCEPT !.data = data,
                                    !.features = features.f,
                                    !.temp_anomaly_score = te.score,
                                    !.is_temp_anomaly = te.is_anomaly]]
                /\ IF te.raised
                   THEN ToFinally(t, ErrInternal)
                   ELSE Goto(t, "inc_anomalies") /\ UNCHANGED resp
    /\ UNCHANGED <<phase, flask415, now, globals, counters, http_request_duration>>
    /\ UNCHANGED <<req, calls, prev, done, pipelineVars, trainerVars, functionVars, consumerVars>>

\* lines 144-145
TemperatureIncAnomalies(t) ==
    /\ pc[t] = "inc_anomalies"
    /\ req[t].endpoint = "/detect/temperature"
    /\ ml_anomalies_detected_total' =
           IF loc[t].is_temp_anomaly
           THEN Inc(ml_anomalies_detected_total)
           ELSE ml_anomalies_detected_total
    /\ Goto(t, "inc_temperature")
    /\ UNCHANGED <<phase, flask415, now, globals, histograms, req, loc, resp>>
    /\ UNCHANGED <<ml_predictions_total, ml_predictions_success_total,
                   ml_temperature_anomalies_total, ml_vibration_anomalies_total>>
    /\ UNCHANGED <<calls, did, prev, done, pipelineVars, trainerVars, functionVars, consumerVars>>

\* line 146
TemperatureIncTemperature(t) ==
    /\ pc[t] = "inc_temperature"
    /\ req[t].endpoint = "/detect/temperature"
    /\ ml_temperature_anomalies_total' =
           IF loc[t].is_temp_anomaly
           THEN Inc(ml_temperature_anomalies_total)
           ELSE ml_temperature_anomalies_total
    /\ Goto(t, "result")
    /\ UNCHANGED <<phase, flask415, now, globals, histograms, req, loc, resp>>
    /\ UNCHANGED <<ml_predictions_total, ml_predictions_success_total,
                   ml_anomalies_detected_total, ml_vibration_anomalies_total>>
    /\ UNCHANGED <<calls, did, prev, done, pipelineVars, trainerVars, functionVars, consumerVars>>

\* lines 148-154: the temperature result, built at the instant clock
TemperatureResultBody(data, l, clock) ==
    [device_id |-> Get(data, "device_id", Str("unknown")),
     timestamp |-> Get(data, "timestamp", IsoTime(clock)),
     temperature |-> l.features["temperature"],
     anomaly_score |-> l.temp_anomaly_score,
     is_anomaly |-> l.is_temp_anomaly]

\* lines 148-159
TemperatureResult(t) ==
    /\ pc[t] = "result"
    /\ req[t].endpoint = "/detect/temperature"
    /\ ml_predictions_success_total' = Inc(ml_predictions_success_total)
    /\ did' = [did EXCEPT ![t].success = @ + 1]
    /\ ToFinally(t, Resp(200, TemperatureResultBody(loc[t].data, loc[t], now)))
    /\ UNCHANGED <<phase, flask415, now, globals, histograms, req, loc>>
    /\ UNCHANGED <<ml_predictions_total, ml_anomalies_detected_total,
                   ml_temperature_anomalies_total, ml_vibration_anomalies_total>>
    /\ UNCHANGED <<calls, prev, done, pipelineVars, trainerVars, functionVars, consumerVars>>

detect_temperature_anomaly(t) ==
    \/ TemperatureScore(t)
    \/ TemperatureIncAnomalies(t)
    \/ TemperatureIncTemperature(t)
    \/ TemperatureResult(t)

(***************************************************************************)
(* POST /detect/vibration: detect_vibration_anomaly (no metrics, no        *)
(* finally block)                                                          *)
(***************************************************************************)
\* lines 172-191: get_json, prepare_features and the vibration scoring
VibrationStart(t, body) ==
    /\ Arrive(t, "/detect/vibration", body)
    /\ did' = [did EXCEPT ![t] = NoDid]
    /\ LET j == get_json(body, flask415)
           features == prepare_features(j.data, now)
           vi == ScoreSignal(vibration_scaler, vibration_model,
                             Select(features.f, vibration_features))
           early(r) == /\ Return(t, "/detect/vibration", r)
                       /\ loc' = [loc EXCEPT ![t] = NoLoc]
       IN  IF j.raised THEN early(ErrInternal)
           ELSE IF Falsy(j) THEN early(ErrNoData)
           ELSE IF ~features.ok THEN early(ErrFeatures)
           ELSE /\ loc' = [loc EXCEPT ![t] =
                      [NoLoc EXCEPT !.data = j.data,
                                    !.features = features.f,
                                    !.vibration_anomaly_score = vi.score,
                                    !.is_vibration_anomaly = vi.is_anomaly]]
                /\ IF vi.raised
                   THEN Return(t, "/detect/vibration", ErrInternal)
                   ELSE /\ Goto(t, "result")
                        /\ resp' = [resp EXCEPT ![t] = NoResp]
                        /\ UNCHANGED done
    /\ UNCHANGED <<phase, flask415, now, globals, counters, histograms, pipelineVars, trainerVars, functionVars, consumerVars>>

\* lines 193-199: the vibration result, built at the instant clock
VibrationResultBody(data, l, clock) ==
    [device_id |-> Get(data, "device_id", Str("unknown")),
     timestamp |-> Get(data, "timestamp", IsoTime(clock)),
     vibration |-> l.features["vibration"],
     anomaly_score |-> l.vibration_anomaly_score,
     is_anomaly |-> l.is_vibration_anomaly]

\* lines 193-202
VibrationResult(t) ==
    /\ pc[t] = "result"
    /\ req[t].endpoint = "/detect/vibration"
    /\ Return(t, "/detect/vibration",
              Resp(200, VibrationResultBody(loc[t].data, loc[t], now)))
    /\ UNCHANGED <<phase, flask415, now, globals, counters, histograms>>
    /\ UNCHANGED <<req, loc, calls, did, prev, pipelineVars, trainerVars, functionVars, consumerVars>>

detect_vibration_anomaly(t) == VibrationResult(t)

(***************************************************************************)
(* GET /metrics, GET /health, POST /alert and the FastAPI POST /predict    *)
(***************************************************************************)
\* generate_latest(): the exposition of the registry
MetricsBody ==
    [ml_predictions_total |-> ml_predictions_total,
     ml_predictions_success_total |-> ml_predictions_success_total,
     ml_anomalies_detected_total |-> ml_anomalies_detected_total,
     ml_temperature_anomalies_total |-> ml_temperature_anomalies_total,
     ml_vibration_anomalies_total |-> ml_vibration_anomalies_total]

\* lines 97-100
metrics(t) ==
    /\ Arrive(t, "/metrics", NoBody(FALSE))
    /\ did' = [did EXCEPT ![t] = NoDid]
    /\ loc' = [loc EXCEPT ![t] = NoLoc]
    /\ Return(t, "/metrics", Resp(200, MetricsBody))
    /\ UNCHANGED <<phase, flask415, now, globals, counters, histograms>>
    /\ UNCHANGED <<pipelineVars, trainerVars, functionVars, consumerVars>>

\* lines 102-109: the result, then the finally block
health_check(t) ==
    /\ Arrive(t, "/health", NoBody(FALSE))
    /\ did' = [did EXCEPT ![t] = NoDid]
    /\ loc' = [loc EXCEPT ![t] = NoLoc]
    /\ ToFinally(t, Resp(200, [status |-> Str("healthy"),
                               timestamp |-> IsoTime(now)]))
    /\ UNCHANGED <<phase, flask415, now, globals, counters, histograms, done>>
    /\ UNCHANGED <<pipelineVars, trainerVars, functionVars, consumerVars>>

\* lines 295-303
AlertMessage(data, clock) ==
    [device_id |-> Get(data, "device_id", Str("unknown")),
     timestamp |-> Get(data, "timestamp", IsoTime(clock)),
     alert_type |-> Get(data, "alert_type", Str("unknown")),
     severity |-> Get(data, "severity", Str("medium")),
     message |-> Get(data, "message", Str("")),
     temperature |-> Get(data, "temperature", Null),
     vibration |-> Get(data, "vibration", Null)]

\* lines 283-311
create_alert(t, body) ==
    /\ Arrive(t, "/alert", body)
    /\ did' = [did EXCEPT ![t] = NoDid]
    /\ loc' = [loc EXCEPT ![t] = NoLoc]
    /\ LET j == get_json(body, flask415)
       IN  Return(t, "/alert",
                  IF j.raised THEN ErrInternal
                  ELSE IF Falsy(j) THEN ErrNoData
                  ELSE Resp(200, [status |-> Str("alert created"),
                                  alert |-> AlertMessage(j.data, now)]))
    /\ UNCHANGED <<phase, flask415, now, globals, counters, histograms>>
    /\ UNCHANGED <<pipelineVars, trainerVars, functionVars, consumerVars>>

\* an exception left the handler: the code makes no response, and what the
\* client is sent is made by the server that hosts the application
Escaped(exc) == [status |-> 0, body |-> [exception |-> exc]]

\* lines 325-340: both transforms, then both predicts. The handler has no
\* except clause: scaler.transform on None raises AttributeError, which
\* leaves predict; no response is returned by it
predict(t, r) ==
    /\ Arrive(t, "/predict", JsonBody(r))
    /\ did' = [did EXCEPT ![t] = NoDid]
    /\ loc' = [loc EXCEPT ![t] = NoLoc]
    /\ LET te == ScoreSignal(temp_scaler, temp_model,
                             Select(r, temp_features))
           vi == ScoreSignal(vibration_scaler, vibration_model,
                             Select(r, vibration_features))
       IN  IF te.raised \/ vi.raised
           THEN /\ resp' = [resp EXCEPT ![t] = Escaped("AttributeError")]
                /\ pc' = [pc EXCEPT ![t] = "idle"]
                /\ UNCHANGED done
           ELSE Return(t, "/predict",
                       Resp(200, [temperature_anomaly |-> te.is_anomaly,
                                  vibration_anomaly |-> vi.is_anomaly]))
    /\ UNCHANGED <<phase, flask415, now, globals, counters, histograms>>
    /\ UNCHANGED <<pipelineVars, trainerVars, functionVars, consumerVars>>

(***************************************************************************)
(* The trainer: AnomalyDetectionTrainer.train_models (ml-trainer)          *)
(***************************************************************************)
\* the files of model_dir a run writes for one signal
ModelFile(model_name) == <<model_name, "model.pkl">>
ScalerFile(model_name) == <<model_name, "scaler.pkl">>
MetricsFile(model_name) == <<model_name, "metrics.json">>
ArtifactFiles ==
    {ModelFile(s) : s \in {"temperature", "vibration"}}
    \cup {ScalerFile(s) : s \in {"temperature", "vibration"}}
    \cup {MetricsFile(s) : s \in {"temperature", "vibration"}}
\* a file that does not exist
Absent == 0
\* a file that open(path, "w") has emptied and that the write, refused by
\* the file system, did not fill: it is empty or holds a part of the data
Truncated == -1

\* the table the trainer queries, by what makes a step of the run raise:
\* the query fails, no row, timestamps that pd.to_datetime rejects, an
\* anomaly label with a single member (the stratified split raises), a
\* test split whose labels and predictions are of one class only (the
\* report of evaluate_model raises), an infinite value in a signal's
\* column (StandardScaler raises)
GoodData ==
    [query_ok |-> TRUE, empty |-> FALSE, timestamps_ok |-> TRUE,
     labels |-> "mixed", finite |-> [temperature |-> TRUE, vibration |-> TRUE]]
Datasets ==
    {GoodData,
     [GoodData EXCEPT !.query_ok = FALSE],
     [GoodData EXCEPT !.empty = TRUE],
     [GoodData EXCEPT !.timestamps_ok = FALSE],
     [GoodData EXCEPT !.labels = "rare"],
     [GoodData EXCEPT !.labels = "one_class_test"],
     [GoodData EXCEPT !.finite.temperature = FALSE],
     [GoodData EXCEPT !.finite.vibration = FALSE]}
\* what the file system does to the writes of one call of
\* train_isolation_forest, file by file: nothing, or it refuses the open
\* (no permission, read-only directory: the file stays as it is), or it
\* refuses the write after the open has truncated the file (disk full,
\* file size limit). Any number of the three files can be refused
FileNames == {"metrics.json", "model.pkl", "scaler.pkl"}
DiskFaults == [FileNames -> {"none", "open", "write"}]
Refused(fault, name) == fault[name] # "none"

\* open(path, "w") and the write of run n's data to the file f of the
\* files fs under the fault: what the file holds afterwards
WriteFile(fs, f, fault, n) ==
    IF fault[f[2]] = "none" THEN [fs EXCEPT ![f] = n]
    ELSE IF fault[f[2]] = "open" THEN fs
    ELSE [fs EXCEPT ![f] = Truncated]

\* fetch_training_data: the frame, or None when the query raised
fetch_training_data(rows) == IF rows.query_ok THEN rows ELSE None
\* a check of the frame that lets an empty frame through
NoTrainingDataNoneOnly(df) == df = None
\* train_models line 176: df is None or df.empty
NoTrainingData(df) == df = None \/ df.empty
\* prepare_features of the trainer: (X, df_sorted), or (None, None) when
\* it raised
trainer_prepare_features(df) == IF df.timestamps_ok THEN df ELSE None

\* lines 100-121 of train_isolation_forest raise: the split, the scaler or
\* the forest
FitRaises(df, model_name) == df.labels = "rare" \/ ~df.finite[model_name]
\* evaluate_model raises inside its try block: at the report (line 141,
\* before the metrics file is opened), at the open of line 165 or at the
\* json.dump of line 166
ReportFails(df) == df.labels = "one_class_test"
EvaluateRaises(df, fault) == ReportFails(df) \/ Refused(fault, "metrics.json")
\* joblib.dump of the model or, when that went through, of the scaler raises
PersistRaises(fault) == Refused(fault, "model.pkl") \/ Refused(fault, "scaler.pkl")

\* train_isolation_forest(X, y, model_name) of run n on the files fs: the
\* files after it, the stages it went through, the stages that raised and
\* the records it logged
train_isolation_forest(fs, df, model_name, fault, n) ==
    LET fit == <<model_name, "fit">>
        evaluate == <<model_name, "evaluate">>
        persist == <<model_name, "persist">>
        fs1 == IF ReportFails(df) THEN fs
               ELSE WriteFile(fs, MetricsFile(model_name), fault, n)
        fs2 == WriteFile(fs1, ModelFile(model_name), fault, n)
        fs3 == IF Refused(fault, "model.pkl") THEN fs2
               ELSE WriteFile(fs2, ScalerFile(model_name), fault, n)
        evallog == IF EvaluateRaises(df, fault)
                   THEN <<"ERROR evaluating model">> ELSE <<>>
        evalfail == IF EvaluateRaises(df, fault) THEN <<evaluate>> ELSE <<>>
    IN  IF FitRaises(df, model_name)
        THEN [files |-> fs, stages |-> <<fit>>, failed |-> <<fit>>,
              log |-> <<"ERROR training Isolation Forest model">>,
              returned |-> None]
        ELSE IF PersistRaises(fault)
        THEN [files |-> fs3, stages |-> <<fit, evaluate, persist>>,
              failed |-> evalfail \o <<persist>>,
              log |-> evallog \o <<"ERROR training Isolation Forest model">>,
              returned |-> None]
        ELSE [files |-> fs3, stages |-> <<fit, evaluate, persist>>,
              failed |-> evalfail,
              log |-> evallog \o <<"INFO Trained and saved model">>,
              returned |-> [model |-> n, scaler |-> n]]

TrainerInit ==
    /\ tpc = "idle"
    /\ files = [f \in ArtifactFiles |-> Absent]
    /\ runs = 0
    /\ table = GoodData
    /\ tstages = <<>>
    /\ tfailed = <<>>
    /\ tlog = <<>>
    /\ files0 = [f \in ArtifactFiles |-> Absent]

\* main(): a run of train_models starts on the table as it is now
StartRun(data) ==
    /\ tpc = "idle"
    /\ runs < MaxRuns
    /\ runs' = runs + 1
    /\ table' = data
    /\ tstages' = <<>>
    /\ tfailed' = <<>>
    /\ tlog' = <<>>
    /\ files0' = files
    /\ tpc' = "fetch"
    /\ UNCHANGED <<files, serverVars, pipelineVars, functionVars, consumerVars>>

\* lines 175-178
Fetch ==
    /\ tpc = "fetch"
    /\ LET df == fetch_training_data(table)
       IN  /\ tstages' = Append(tstages, <<"all", "fetch">>)
           /\ tfailed' = IF NoTrainingData(df)
                         THEN Append(tfailed, <<"all", "fetch">>) ELSE tfailed
           /\ tlog' = tlog
                      \o (IF df = None
                          THEN <<"ERROR fetching training data">> ELSE <<>>)
                      \o (IF NoTrainingData(df)
                          THEN <<"WARNING No training data available">>
                          ELSE <<>>)
           /\ tpc' = IF NoTrainingData(df) THEN "idle" ELSE "prepare"
    /\ UNCHANGED <<files, runs, table, files0, serverVars, pipelineVars, functionVars, consumerVars>>

\* lines 181-184
Prepare ==
    /\ tpc = "prepare"
    /\ LET X == trainer_prepare_features(table)
       IN  /\ tstages' = Append(tstages, <<"all", "prepare">>)
           /\ tfailed' = IF X = None THEN Append(tfailed, <<"all", "prepare">>)
                         ELSE tfailed
           /\ tlog' = IF X = None
                      THEN tlog \o <<"ERROR preparing features",
                                     "ERROR Failed to prepare features">>
                      ELSE tlog
           /\ tpc' = IF X = None THEN "idle" ELSE "train:temperature"
    /\ UNCHANGED <<files, runs, table, files0, serverVars, pipelineVars, functionVars, consumerVars>>

\* lines 186-190 and 192-196: train_isolation_forest for one signal; what
\* it returns is not looked at
Train(model_name, next, fault) ==
    /\ tpc = "train:" \o model_name
    /\ LET out == train_isolation_forest(files, table, model_name, fault, runs)
       IN  /\ files' = out.files
           /\ tstages' = tstages \o out.stages
           /\ tfailed' = tfailed \o out.failed
           /\ tlog' = tlog \o out.log
    /\ tpc' = next
    /\ UNCHANGED <<runs, table, files0, serverVars, pipelineVars, functionVars, consumerVars>>

\* line 198
LogSuccess ==
    /\ tpc = "success"
    /\ tlog' = Append(tlog, "INFO All models trained successfully")
    /\ tpc' = "idle"
    /\ UNCHANGED <<files, runs, table, tstages, tfailed, files0>>
    /\ UNCHANGED <<serverVars, pipelineVars, functionVars, consumerVars>>

train_models ==
    \/ Fetch
    \/ Prepare
    \/ \E fault \in DiskFaults :
          \/ Train("temperature", "train:vibration", fault)
          \/ Train("vibration", "success", fault)
    \/ LogSuccess

(***************************************************************************)
(* The streaming pipeline: the DoFns and run_pipeline                      *)
(***************************************************************************)
\* the transforms run_pipeline applies, in the order of its statements
Transforms ==
    <<"read", "parse", "enrich", "score", "alert", "format", "write",
      "flatten_errors">>
\* how many of them are applied inside the "with beam.Pipeline" block: the
\* block ends after 'Parse Messages' (the statements from line 219 on are
\* indented as the with statement is, not as its body)
AppliedInWith == 2

\* the ParDo stages, the PCollection each one reads and the PCollections
\* its main and its 'errors' output feed
Stages == {"parse", "enrich", "score", "alert", "format"}
\* a wiring in which 'Detect Anomalies with ML' reads the errors of
\* 'Preprocess Data'
InputOfErrors ==
    [parse |-> "read", enrich |-> "parsed", score |-> "errors:enrich",
     alert |-> "detected", format |-> "alerted"]
InputOf ==
    [parse |-> "read", enrich |-> "parsed", score |-> "preprocessed",
     alert |-> "detected", format |-> "alerted"]
MainOf ==
    [parse |-> "parsed", enrich |-> "preprocessed", score |-> "detected",
     alert |-> "alerted", format |-> "rows"]
\* ('Format for BigQuery' is applied without .with_outputs: what it yields
\* under 'errors' feeds no PCollection)
ErrorsOf ==
    [parse |-> "errors:parse", enrich |-> "errors:enrich",
     score |-> "errors:score", alert |-> "errors:alert",
     format |-> "errors:format"]
\* line 254: the error PCollections handed to 'Flatten All Errors'
FlattenInputs ==
    {"errors:parse", "errors:enrich", "errors:score", "errors:alert"}

HasKey(d, key) == key \in DOMAIN d
\* d[key] = value
Put(d, key, value) == (key :> value) @@ d

\* messages on the subscription: bytes that are no JSON, JSON that is no
\* object, readings with and without the is_anomaly label, a reading
\* without device_id, and the message simulator/test-pubsub.py publishes
Malformed == [json_ok |-> FALSE, value |-> EmptyDict]
NotAnObject == [json_ok |-> TRUE, value |-> Num(5)]
Reading(temperature, vibration, flag) ==
    [json_ok |-> TRUE,
     value |-> ([device_id |-> Str("sensor_0001"),
                 timestamp |-> IsoTime(30),
                 device_type |-> Str("hvac"),
                 location |-> [building |-> Str("A"), floor |-> Num(1),
                               room |-> Str("101")],
                 sensor_data |-> [temperature |-> Num(temperature),
                                  vibration |-> Num(vibration)]] @@ flag)]
Without(d, key) == [k \in DOMAIN d \ {key} |-> d[k]]
Anonymous ==
    [json_ok |-> TRUE,
     value |-> Without(Reading(22, 1, [is_anomaly |-> FALSE]).value,
                       "device_id")]
TestMessage ==
    [json_ok |-> TRUE,
     value |-> [test |-> Str("message"), timestamp |-> IsoTime(0)]]
RawMessages ==
    {Malformed, NotAnObject, Reading(22, 1, [is_anomaly |-> FALSE]),
     Reading(40, 15, [is_anomaly |-> TRUE]), Reading(22, 1, EmptyDict),
     Anonymous, TestMessage}

\* what a DoFn yields: beam.pvalue.TaggedOutput('errors', e), or e itself
TaggedErrors(e) == [tag |-> "errors", element |-> e]
Yield(e) == [tag |-> "main", element |-> e]

\* json.loads gave a dict: every other JSON value carries its type
IsObject(v) == ~HasKey(v, "type")

\* ParseMessage.process that skips a malformed message without an output
ParseMessageSkip(element, clock) ==
    IF element.json_ok /\ IsObject(element.value)
    THEN <<Yield(Put(element.value, "processed_at", IsoTime(clock)))>>
    ELSE <<>>

\* ParseMessage.process: json.loads and the processed_at stamp on the main
\* output; when json.loads or the item assignment raises, the raw element
\* on the errors output
ParseMessage(element, clock) ==
    IF element.json_ok /\ IsObject(element.value)
    THEN <<Yield(Put(element.value, "processed_at", IsoTime(clock)))>>
    ELSE <<TaggedErrors(element)>>

\* element['sensor_data'][key] raises KeyError
LacksSignal(element, key) ==
    ~HasKey(element, "sensor_data") \/ ~HasKey(element["sensor_data"], key)

\* PreprocessData.process that leaves the moving averages at 0
PreprocessDataZeroMa(element) ==
    IF LacksSignal(element, "temperature") \/ LacksSignal(element, "vibration")
    THEN <<TaggedErrors(element)>>
    ELSE LET sd == element["sensor_data"]
             sd1 == Put(sd, "temp_ma", Num(0))
             sd2 == Put(sd1, "vibration_ma", Num(0))
             sd3 == Put(sd2, "temp_zscore", Num(0))
             sd4 == Put(sd3, "vibration_zscore", Num(0))
         IN  <<Yield(Put(element, "sensor_data", sd4))>>

\* PreprocessData.process: the moving averages are the values themselves,
\* the z-scores 0.0. The element is changed in place: when vibration is
\* missing, the element on the errors output already has its temp_ma
PreprocessData(element) ==
    IF LacksSignal(element, "temperature")
    THEN <<TaggedErrors(element)>>
    ELSE LET sd == element["sensor_data"]
             sd1 == Put(sd, "temp_ma", sd["temperature"])
         IN  IF LacksSignal(element, "vibration")
             THEN <<TaggedErrors(Put(element, "sensor_data", sd1))>>
             ELSE LET sd2 == Put(sd1, "vibration_ma", sd["vibration"])
                      sd3 == Put(sd2, "temp_zscore", Num(0))
                      sd4 == Put(sd3, "vibration_zscore", Num(0))
                  IN  <<Yield(Put(element, "sensor_data", sd4))>>

\* what requests.post(url, json=..., timeout=5) does: it raises
\* ConnectionError or Timeout (both RequestException), or it returns a
\* response with a status code and a JSON body
ConnectionError == [kind |-> "ConnectionError"]
Timeout == [kind |-> "Timeout"]
Response(status_code, json) ==
    [kind |-> "response", status_code |-> status_code, json |-> json]

\* lines 73-78: the payload of the scoring call; it raises KeyError on a
\* record without device_id, timestamp or a signal
MlDataRaises(element) ==
    \/ ~HasKey(element, "device_id")
    \/ ~HasKey(element, "timestamp")
    \/ LacksSignal(element, "temperature")
    \/ LacksSignal(element, "vibration")
MlData(element) ==
    [device_id |-> element["device_id"],
     timestamp |-> element["timestamp"],
     temperature |-> element["sensor_data"]["temperature"],
     vibration |-> element["sensor_data"]["vibration"]]

\* DetectAnomaliesWithML.process that marks the record normal when the
\* call fails
DetectAnomaliesWithMLReset(element, answer) ==
    IF MlDataRaises(element)
    THEN <<TaggedErrors(element)>>
    ELSE IF answer.kind = "response" /\ answer.status_code = 200
    THEN LET result == answer.json
             sd == element["sensor_data"]
             sd1 == Put(sd, "temp_anomaly_score",
                        Get(result, "temp_anomaly_score", 0))
             sd2 == Put(sd1, "vibration_anomaly_score",
                        Get(result, "vibration_anomaly_score", 0))
             e1 == Put(element, "is_anomaly",
                       Get(result, "is_anomaly", FALSE))
         IN  <<Yield(Put(e1, "sensor_data", sd2))>>
    ELSE <<Yield(Put(element, "is_anomaly", FALSE))>>

\* DetectAnomaliesWithML.process, answer being the outcome of its call
DetectAnomaliesWithML(element, answer) ==
    IF MlDataRaises(element)
    THEN <<TaggedErrors(element)>>
    ELSE IF answer.kind = "response" /\ answer.status_code = 200
    THEN LET result == answer.json
             sd == element["sensor_data"]
             sd1 == Put(sd, "temp_anomaly_score",
                        Get(result, "temp_anomaly_score", 0))
             sd2 == Put(sd1, "vibration_anomaly_score",
                        Get(result, "vibration_anomaly_score", 0))
             e1 == Put(element, "is_anomaly",
                       Get(result, "is_anomaly", FALSE))
         IN  <<Yield(Put(e1, "sensor_data", sd2))>>
    ELSE <<Yield(element)>>

\* SendAlerts.process that dispatches for every record
DispatchesAlways(element) == TRUE

\* SendAlerts.process dispatches for this record: element.get('is_anomaly',
\* False) holds
Dispatches(element) == Get(element, "is_anomaly", FALSE)

\* lines 112-124: the alert; it raises KeyError on a record without
\* device_id, timestamp or a signal
AlertDataRaises(element) == MlDataRaises(element)
AlertData(element) ==
    [device_id |-> element["device_id"],
     timestamp |-> element["timestamp"],
     alert_type |-> Str("anomaly_detected"),
     severity |-> Str("high"),
     message |-> [type |-> "string", s |-> "Anomaly detected for device",
                  device_id |-> element["device_id"]],
     temperature |-> element["sensor_data"]["temperature"],
     vibration |-> element["sensor_data"]["vibration"]]
    @@ (IF HasKey(element["sensor_data"], "anomaly_type")
        THEN [anomaly_type |-> element["sensor_data"]["anomaly_type"]]
        ELSE EmptyDict)

\* SendAlerts.process: the record goes on whatever the call did
SendAlerts(element, answer) ==
    IF Dispatches(element) /\ AlertDataRaises(element)
    THEN <<TaggedErrors(element)>>
    ELSE <<Yield(element)>>

\* lines 147-160: the keys FormatForBigQuery.process reads without default
FormatRaises(element) ==
    \/ \E key \in {"device_id", "timestamp", "processed_at", "location",
                   "device_type", "is_anomaly"} : ~HasKey(element, key)
    \/ \E key \in {"building", "floor", "room"} :
          ~HasKey(element["location"], key)
    \/ LacksSignal(element, "temperature")
    \/ LacksSignal(element, "vibration")

\* FormatForBigQuery.process: the flat row of the sink's schema
FormatForBigQuery(element) ==
    IF FormatRaises(element)
    THEN <<TaggedErrors(element)>>
    ELSE LET sd == element["sensor_data"]
         IN  <<Yield(
               [device_id |-> element["device_id"],
                timestamp |-> element["timestamp"],
                processed_at |-> element["processed_at"],
                building |-> element["location"]["building"],
                floor |-> element["location"]["floor"],
                room |-> element["location"]["room"],
                device_type |-> element["device_type"],
                temperature |-> sd["temperature"],
                vibration |-> sd["vibration"],
                is_anomaly |-> element["is_anomaly"],
                temp_anomaly_score |-> Get(sd, "temp_anomaly_score", 0),
                vibration_anomaly_score |->
                    Get(sd, "vibration_anomaly_score", 0),
                temp_ma |-> Get(sd, "temp_ma", Num(0)),
                vibration_ma |-> Get(sd, "vibration_ma", Num(0)),
                temp_zscore |-> Get(sd, "temp_zscore", Num(0)),
                vibration_zscore |-> Get(sd, "vibration_zscore", Num(0))]
               @@ (IF HasKey(sd, "anomaly_type")
                   THEN [anomaly_type |-> sd["anomaly_type"]]
                   ELSE EmptyDict))>>

PipelineInit ==
    /\ ppc = "start"
    /\ graph = <<>>
    /\ ran = <<>>
    /\ subscription = <<>>
    /\ records = <<>>
    /\ sink = <<>>
    /\ alerts = <<>>
    /\ diagnostics = <<>>

\* nothing applied yet
NoApplication == [fn |-> "none"]
FunctionsInit == applied = NoApplication

\* the subscriber has delivered nothing yet and the table is empty
ConsumerInit ==
    /\ delivery = [w \in Callbacks |-> [pc |-> "idle"]]
    /\ settled = <<>>
    /\ inserted = <<>>

Init ==
    ServerInit /\ PipelineInit /\ TrainerInit /\ FunctionsInit /\ ConsumerInit

InSeq(x, xs) == \E i \in DOMAIN xs : xs[i] = x

\* a sensor publishes a message to the topic
Publish(m) ==
    /\ Len(subscription) + Len(records) < MaxMsgs
    /\ subscription' = Append(subscription, m)
    /\ UNCHANGED <<ppc, graph, ran, records, sink, alerts, diagnostics>>
    /\ UNCHANGED <<serverVars, trainerVars, functionVars, consumerVars>>

\* lines 208-216: the body of the with block applies its transforms
ApplyInWith ==
    /\ ppc = "start"
    /\ graph' = SubSeq(Transforms, 1, AppliedInWith)
    /\ ppc' = "with"
    /\ UNCHANGED <<ran, subscription, records, sink, alerts, diagnostics>>
    /\ UNCHANGED <<serverVars, trainerVars, functionVars, consumerVars>>

\* Pipeline.__exit__: run() starts the graph as it stands
Run ==
    /\ ppc = "with"
    /\ ran' = graph
    /\ ppc' = "running"
    /\ UNCHANGED <<graph, subscription, records, sink, alerts, diagnostics>>
    /\ UNCHANGED <<serverVars, trainerVars, functionVars, consumerVars>>

\* a message pulled from the subscription, no stage has seen it yet
NewRecord(m) ==
    [raw |-> m, element |-> m, at |-> "read", trace |-> <<>>, outs |-> <<>>]

\* ReadFromPubSub pulls the next message
PubSubRead ==
    /\ ppc = "running"
    /\ InSeq("read", ran)
    /\ subscription # <<>>
    /\ records' = Append(records, NewRecord(Head(subscription)))
    /\ subscription' = Tail(subscription)
    /\ UNCHANGED <<ppc, graph, ran, sink, alerts, diagnostics>>
    /\ UNCHANGED <<serverVars, trainerVars, functionVars, consumerVars>>

\* the PCollection the outputs of a stage put the record in: main, the
\* declared errors output, or nowhere
Route(stage, out) ==
    IF Len(out) = 0 THEN "dropped"
    ELSE IF out[1].tag = "main" THEN MainOf[stage]
    ELSE ErrorsOf[stage]

\* the ParDo of a stage has processed record i and yielded out
Processed(i, stage, out) ==
    LET r == records[i]
    IN  records' = [records EXCEPT ![i] =
            [raw |-> r.raw,
             element |-> IF Len(out) = 0 THEN r.element ELSE out[1].element,
             at |-> Route(stage, out),
             trace |-> Append(r.trace, stage),
             outs |-> Append(r.outs, [k \in DOMAIN out |-> out[k].tag])]]

\* record i waits in the PCollection that a stage of the running graph
\* reads
Ready(i, stage) ==
    /\ ppc = "running"
    /\ InSeq(stage, ran)
    /\ records[i].at = InputOf[stage]

\* the 'Parse Messages' ParDo processes record i
Parse(i) ==
    /\ Ready(i, "parse")
    /\ Processed(i, "parse", ParseMessage(records[i].element, now))
    /\ UNCHANGED <<ppc, graph, ran, subscription, sink, alerts, diagnostics>>
    /\ UNCHANGED <<serverVars, trainerVars, functionVars, consumerVars>>

\* a transform of the graph that ran has record r to process
Pending(r) ==
    \/ \E stage \in Stages : InSeq(stage, ran) /\ r.at = InputOf[stage]
    \/ InSeq("write", ran) /\ r.at = "rows"
    \/ /\ InSeq("flatten_errors", ran)
       /\ r.at \in FlattenInputs
       /\ ~InSeq(r.element, diagnostics)

\* wait_until_finish returns: the job is drained, every message read and
\* every record through all transforms of the graph that ran
Finish ==
    /\ ppc = "running"
    /\ subscription = <<>>
    /\ \A i \in DOMAIN records : ~Pending(records[i])
    /\ ppc' = "after_with"
    /\ UNCHANGED <<graph, ran, subscription, records, sink, alerts>>
    /\ UNCHANGED <<diagnostics, serverVars, trainerVars, functionVars, consumerVars>>

\* lines 219-257: the statements after the with block apply the remaining
\* transforms to the pipeline that has already run
ApplyAfterWith ==
    /\ ppc = "after_with"
    /\ graph' = Append(graph, Transforms[Len(graph) + 1])
    /\ ppc' = IF Len(graph) + 1 = Len(Transforms) THEN "returned" ELSE ppc
    /\ UNCHANGED <<ran, subscription, records, sink, alerts, diagnostics>>
    /\ UNCHANGED <<serverVars, trainerVars, functionVars, consumerVars>>

run_pipeline == ApplyInWith \/ Run \/ Finish \/ ApplyAfterWith

(***************************************************************************)
(* The DoFns on their own: process is called on a message, then each DoFn  *)
(* on what the one before it yielded on its main output, in the order in   *)
(* which lines 210-246 chain them. Their requests.post goes to the scoring *)
(* service: a handler thread serves the request, or the call raises        *)
(***************************************************************************)
\* a reading whose temperature is null
NullTemperature ==
    [json_ok |-> TRUE,
     value |-> Put(Reading(22, 1, [is_anomaly |-> TRUE]).value, "sensor_data",
                   [temperature |-> Null, vibration |-> Num(1)])]
DoFnMessages == RawMessages \cup {NullTemperature}

\* no call made
NoAnswer == [kind |-> "none"]
\* the message m before the first DoFn: the element, the PCollection it is
\* in, the DoFns applied and the tags each yielded under, the element
\* before the scoring DoFn, the outcomes of the two calls, the call that
\* is under way and the number of requests the service had taken when it
\* was posted
NewChain(m) ==
    [fn |-> "dofns", raw |-> m, element |-> m, at |-> "read",
     trace |-> <<>>, outs |-> <<>>, before |-> EmptyDict,
     call |-> NoAnswer, alert |-> NoAnswer, wait |-> "none", base |-> 0]

\* process of the stage's DoFn has yielded out
Yielded(stage, out, call, alert) ==
    applied' =
        [applied EXCEPT
            !.element = IF Len(out) = 0 THEN @ ELSE out[1].element,
            !.at = Route(stage, out),
            !.trace = Append(@, stage),
            !.outs = Append(@, [k \in DOMAIN out |-> out[k].tag]),
            !.before = IF stage = "score" THEN applied.element ELSE @,
            !.call = call,
            !.alert = alert,
            !.wait = "none"]

\* the element is in the PCollection the stage reads, no call under way
Applying(stage) ==
    /\ applied.fn = "dofns"
    /\ applied.wait = "none"
    /\ applied.at = InputOf[stage]

\* what the call under way does now: it raises ConnectionError or Timeout,
\* or, once the thread that took the request has answered, it returns the
\* response
Answers ==
    {ConnectionError, Timeout} \cup
    (IF calls > applied.base /\ pc[applied.base + 1] = "idle"
     THEN {Response(resp[applied.base + 1].status,
                    resp[applied.base + 1].body)}
     ELSE {})

Feed(m) ==
    /\ applied = NoApplication
    /\ applied' = NewChain(m)
    /\ UNCHANGED <<serverVars, pipelineVars, trainerVars, consumerVars>>

\* ParseMessage.process
ParseProcess ==
    /\ Applying("parse")
    /\ Yielded("parse", ParseMessage(applied.element, now), NoAnswer, NoAnswer)
    /\ UNCHANGED <<serverVars, pipelineVars, trainerVars, consumerVars>>

\* PreprocessData.process
PreprocessProcess ==
    /\ Applying("enrich")
    /\ Yielded("enrich", PreprocessData(applied.element), NoAnswer, NoAnswer)
    /\ UNCHANGED <<serverVars, pipelineVars, trainerVars, consumerVars>>

\* DetectAnomaliesWithML.process, lines 71-86: building ml_data raises and
\* the element is yielded under 'errors', or the request is posted
DetectPost ==
    /\ Applying("score")
    /\ IF MlDataRaises(applied.element)
       THEN Yielded("score", DetectAnomaliesWithML(applied.element, NoAnswer),
                    NoAnswer, NoAnswer)
       ELSE applied' = [applied EXCEPT !.wait = "score", !.base = calls]
    /\ UNCHANGED <<serverVars, pipelineVars, trainerVars, consumerVars>>

\* the posted request reaches the service: detect_anomalies starts on a
\* thread
DetectArrives ==
    /\ applied.fn = "dofns"
    /\ applied.wait = "score"
    /\ calls = applied.base
    /\ DetectStart(calls + 1, JsonBody(MlData(applied.element)))

\* lines 86-100: requests.post returns or raises, the element is yielded
DetectReturns ==
    /\ applied.fn = "dofns"
    /\ applied.wait = "score"
    /\ \E answer \in Answers :
          Yielded("score", DetectAnomaliesWithML(applied.element, answer),
                  answer, NoAnswer)
    /\ UNCHANGED <<serverVars, pipelineVars, trainerVars, consumerVars>>

\* SendAlerts.process, lines 108-130: no anomaly and the element is
\* yielded; building alert_data raises and it is yielded under 'errors';
\* or the alert is posted
AlertPost ==
    /\ Applying("alert")
    /\ IF Dispatches(applied.element) /\ ~AlertDataRaises(applied.element)
       THEN /\ applied' = [applied EXCEPT !.wait = "alert", !.base = calls]
            /\ alerts' = Append(alerts, AlertData(applied.element))
       ELSE /\ Yielded("alert", SendAlerts(applied.element, NoAnswer),
                       applied.call, NoAnswer)
            /\ UNCHANGED alerts
    /\ UNCHANGED <<ppc, graph, ran, subscription, records, sink, diagnostics>>
    /\ UNCHANGED <<serverVars, trainerVars, consumerVars>>

\* the posted alert reaches the service: create_alert runs on a thread
AlertArrives ==
    /\ applied.fn = "dofns"
    /\ applied.wait = "alert"
    /\ calls = applied.base
    /\ create_alert(calls + 1, JsonBody(AlertData(applied.element)))

\* lines 130-136: requests.post returns or raises, the element is yielded
AlertReturns ==
    /\ applied.fn = "dofns"
    /\ applied.wait = "alert"
    /\ \E answer \in Answers :
          Yielded("alert", SendAlerts(applied.element, answer),
                  applied.call, answer)
    /\ UNCHANGED <<serverVars, pipelineVars, trainerVars, consumerVars>>

\* FormatForBigQuery.process
FormatProcess ==
    /\ Applying("format")
    /\ Yielded("format", FormatForBigQuery(applied.element),
               applied.call, applied.alert)
    /\ UNCHANGED <<serverVars, pipelineVars, trainerVars, consumerVars>>

(***************************************************************************)
(* The consumer: IoTDataConsumer.process_message (data-consumer), called   *)
(* by the subscriber once for every delivery of a message                  *)
(***************************************************************************)
\* what the BigQuery client does for an insert: the row is stored;
\* insert_rows_json returns a list of errors and stores nothing; get_table
\* or insert_rows_json raises
BigQueryOutcomes == {"stored", "errors", "raises"}

\* lines 36-46: building the row raises KeyError on a message without one
\* of its fields
RowRaises(data) ==
    \/ \E k \in {"device_id", "timestamp", "location", "device_type",
                  "sensor_data", "is_anomaly"} : ~HasKey(data, k)
    \/ \E k \in {"building", "floor", "room"} : ~HasKey(data["location"], k)
    \/ \E k \in {"temperature", "vibration"} : ~HasKey(data["sensor_data"], k)

\* lines 36-50
BqRow(data) ==
    LET bq_row == [device_id |-> data["device_id"],
                   timestamp |-> data["timestamp"],
                   building |-> data["location"]["building"],
                   floor |-> data["location"]["floor"],
                   room |-> data["location"]["room"],
                   device_type |-> data["device_type"],
                   temperature |-> data["sensor_data"]["temperature"],
                   vibration |-> data["sensor_data"]["vibration"],
                   is_anomaly |-> data["is_anomaly"]]
    IN  IF HasKey(data["sensor_data"], "anomaly_type")
        THEN Put(bq_row, "anomaly_type", data["sensor_data"]["anomaly_type"])
        ELSE bq_row

\* insert_into_bigquery(row): it logs what goes wrong and never raises
insert_into_bigquery(tbl, row, bq) ==
    IF bq = "stored" THEN Append(tbl, row) ELSE tbl

\* a callback thread that runs no callback
NoDelivery == [pc |-> "idle"]

\* the subscriber calls process_message(message) on a thread of its pool
process_message(w, message) ==
    /\ delivery[w].pc = "idle"
    /\ Len(settled) + Cardinality({v \in Callbacks : delivery[v].pc # "idle"})
         < MaxDeliveries
    /\ delivery' = [delivery EXCEPT ![w] = [pc |-> "row", message |-> message]]
    /\ UNCHANGED <<settled, inserted>>
    /\ UNCHANGED <<serverVars, pipelineVars, trainerVars, functionVars>>

\* lines 32-50: json.loads and the row; an exception leads to line 58
BuildRow(w) ==
    /\ delivery[w].pc = "row"
    /\ LET message == delivery[w].message
       IN  delivery' = [delivery EXCEPT ![w] =
               IF ~message.json_ok \/ ~IsObject(message.value)
                  \/ RowRaises(message.value)
               THEN [pc |-> "except", message |-> message, bq |-> "not called"]
               ELSE [pc |-> "insert", message |-> message,
                     bq_row |-> BqRow(message.value)]]
    /\ UNCHANGED <<settled, inserted>>
    /\ UNCHANGED <<serverVars, pipelineVars, trainerVars, functionVars>>

\* line 53: insert_into_bigquery(bq_row), the BigQuery client behaving as bq
InsertRow(w, bq) ==
    /\ delivery[w].pc = "insert"
    /\ inserted' = insert_into_bigquery(inserted, delivery[w].bq_row, bq)
    /\ delivery' = [delivery EXCEPT ![w] =
           [pc |-> "ack", message |-> delivery[w].message, bq |-> bq]]
    /\ UNCHANGED settled
    /\ UNCHANGED <<serverVars, pipelineVars, trainerVars, functionVars>>

\* line 56: message.ack()
Ack(w) ==
    /\ delivery[w].pc = "ack"
    /\ settled' = Append(settled,
           [message |-> delivery[w].message, bq |-> delivery[w].bq,
            acks |-> 1, nacks |-> 0])
    /\ delivery' = [delivery EXCEPT ![w] = NoDelivery]
    /\ UNCHANGED inserted
    /\ UNCHANGED <<serverVars, pipelineVars, trainerVars, functionVars>>

\* lines 58-60: message.nack()
Nack(w) ==
    /\ delivery[w].pc = "except"
    /\ settled' = Append(settled,
           [message |-> delivery[w].message, bq |-> delivery[w].bq,
            acks |-> 0, nacks |-> 1])
    /\ delivery' = [delivery EXCEPT ![w] = NoDelivery]
    /\ UNCHANGED inserted
    /\ UNCHANGED <<serverVars, pipelineVars, trainerVars, functionVars>>

Instants == 0..MaxClock

(***************************************************************************)
(* float64, the numbers of the trainer's columns and metrics. A number is  *)
(* sign, significand and exponent, its value m * 2^e with at most          *)
(* SignificandBits significant bits in m; every operation rounds to        *)
(* nearest, ties to even, as the machine does. The significand is a        *)
(* sequence of hexadecimal digits, lowest first. Exponents stay far from   *)
(* the overflow and underflow of the format.                               *)
(***************************************************************************)
SignificandBits == 53

\* natural numbers as sequences of hexadecimal digits, lowest first, no
\* leading zero
RECURSIVE Trim(_)
Trim(a) ==
    IF a = <<>> THEN a
    ELSE IF a[Len(a)] = 0 THEN Trim(SubSeq(a, 1, Len(a) - 1))
    ELSE a
Digit(a, i) == IF i \in DOMAIN a THEN a[i] ELSE 0
Longer(a, b) == IF Len(a) >= Len(b) THEN Len(a) ELSE Len(b)
RECURSIVE AddFrom(_, _, _, _)
AddFrom(a, b, i, carry) ==
    IF i > Longer(a, b)
    THEN IF carry = 1 THEN <<1>> ELSE <<>>
    ELSE LET t == Digit(a, i) + Digit(b, i) + carry
         IN  <<t % 16>> \o AddFrom(a, b, i + 1, t \div 16)
NatAdd(a, b) == AddFrom(a, b, 1, 0)
\* a - b for a >= b
RECURSIVE SubFrom(_, _, _, _)
SubFrom(a, b, i, borrow) ==
    IF i > Len(a) THEN <<>>
    ELSE LET t == Digit(a, i) - Digit(b, i) - borrow
         IN  <<(t + 16) % 16>> \o SubFrom(a, b, i + 1, IF t < 0 THEN 1 ELSE 0)
NatSub(a, b) == Trim(SubFrom(a, b, 1, 0))
NatLess(a, b) ==
    \/ Len(a) < Len(b)
    \/ /\ Len(a) = Len(b)
       /\ \E i \in DOMAIN a :
             /\ a[i] < b[i]
             /\ \A j \in (i + 1)..Len(a) : a[j] = b[j]
\* a * c for a factor c of at most 16
RECURSIVE MulFrom(_, _, _, _)
MulFrom(a, c, i, carry) ==
    IF i > Len(a)
    THEN IF carry = 0 THEN <<>> ELSE <<carry>>
    ELSE LET t == a[i] * c + carry
         IN  <<t % 16>> \o MulFrom(a, c, i + 1, t \div 16)
NatMul(a, c) == MulFrom(a, c, 1, 0)
\* 2^j for j < 4, and a * 2^k
TwoTo(j) == <<1, 2, 4, 8>>[j + 1]
ShiftLeft(a, k) ==
    IF a = <<>> THEN a
    ELSE [j \in 1..(k \div 4) |-> 0] \o NatMul(a, TwoTo(k % 4))
\* long division of the digits i..1 of a by the small number n, r carried
\* in: the digits of the quotient, highest first, then the remainder
RECURSIVE DivFrom(_, _, _, _)
DivFrom(a, i, n, r) ==
    IF i = 0 THEN <<r>>
    ELSE LET r1 == 16 * r + a[i]
         IN  <<r1 \div n>> \o DivFrom(a, i - 1, n, r1 % n)
NatDiv(a, n) ==
    LET d == DivFrom(a, Len(a), n, 0)
    IN  [q |-> Trim([i \in DOMAIN a |-> d[Len(a) + 1 - i]]),
         r |-> d[Len(a) + 1]]
\* the number of bits of a
BitLength(a) ==
    LET top == a[Len(a)]
    IN  4 * (Len(a) - 1)
          + (IF top >= 8 THEN 4 ELSE IF top >= 4 THEN 3
             ELSE IF top >= 2 THEN 2 ELSE 1)

\* the float of the value m * 2^e, negated when neg: the significand is
\* odd, so that equal values are equal floats
RECURSIVE Float(_, _, _)
Float(neg, m, e) ==
    IF m = <<>> THEN [neg |-> FALSE, m |-> <<>>, e |-> 0]
    ELSE IF m[1] = 0 THEN Float(neg, Tail(m), e + 4)
    ELSE IF m[1] % 2 = 0 THEN Float(neg, NatDiv(m, 2).q, e + 1)
    ELSE [neg |-> neg, m |-> m, e |-> e]
FloatZero == Float(FALSE, <<>>, 0)

\* m * 2^e, plus a fraction of 2^e below when sticky, rounded to
\* SignificandBits bits: to nearest, ties to even. m is first doubled
\* until the bits that are dropped fill w whole digits
RoundNearestEven(neg, m, e, sticky) ==
    IF m = <<>> \/ BitLength(m) <= SignificandBits THEN Float(neg, m, e)
    ELSE LET k == BitLength(m) - SignificandBits
             j == (4 - (k % 4)) % 4
             w == (k + j) \div 4
             s == NatMul(m, TwoTo(j))
             q == SubSeq(s, w + 1, Len(s))
             rest == \/ sticky
                     \/ s[w] % 8 # 0
                     \/ \E i \in 1..(w - 1) : s[i] # 0
             up == s[w] >= 8 /\ (rest \/ q[1] % 2 = 1)
         IN  Float(neg, IF up THEN NatAdd(q, <<1>>) ELSE q, (e - j) + 4 * w)

\* the significands of a and b at the lower of the two exponents
Lower(a, b) == IF a.e <= b.e THEN a.e ELSE b.e
Aligned(a, b) == ShiftLeft(a.m, a.e - Lower(a, b))

\* a + b and a - b of two floats that are not negative
FloatAdd(a, b) ==
    RoundNearestEven(FALSE, NatAdd(Aligned(a, b), Aligned(b, a)),
                     Lower(a, b), FALSE)
FloatSub(a, b) ==
    IF NatLess(Aligned(a, b), Aligned(b, a))
    THEN RoundNearestEven(TRUE, NatSub(Aligned(b, a), Aligned(a, b)),
                          Lower(a, b), FALSE)
    ELSE RoundNearestEven(FALSE, NatSub(Aligned(a, b), Aligned(b, a)),
                          Lower(a, b), FALSE)
\* a / n for a float a that is not negative and a count n: the quotient is
\* computed with more bits than the significand holds, then rounded
GuardBits == SignificandBits + 7
FloatDiv(a, n) ==
    LET d == NatDiv(ShiftLeft(a.m, GuardBits), n)
    IN  RoundNearestEven(FALSE, d.q, a.e - GuardBits, d.r # 0)

\* the digits of the integer n, and the integer of the digits a
RECURSIVE Hex(_)
Hex(n) == IF n = 0 THEN <<>> ELSE <<n % 16>> \o Hex(n \div 16)
RECURSIVE NatValue(_)
NatValue(a) == IF a = <<>> THEN 0 ELSE a[1] + 16 * NatValue(Tail(a))
\* a * b
RECURSIVE TimesFrom(_, _, _)
TimesFrom(a, b, i) ==
    IF i > Len(b) THEN <<>>
    ELSE NatAdd(NatMul(a, b[i]), <<0>> \o TimesFrom(a, b, i + 1))
NatTimes(a, b) == Trim(TimesFrom(a, b, 1))
\* the greatest digit d with b * d <= r
QuotDigit(r, b) ==
    CHOOSE d \in 0..15 :
        /\ ~NatLess(r, Trim(NatMul(b, d)))
        /\ d = 15 \/ NatLess(r, Trim(NatMul(b, d + 1)))
\* long division of the digits i..1 of a by b, the remainder r carried in:
\* the digits of the quotient, highest first, and the remainder
RECURSIVE QuotFrom(_, _, _, _)
QuotFrom(a, i, b, r) ==
    IF i = 0 THEN [q |-> <<>>, r |-> r]
    ELSE LET r1 == Trim(<<a[i]>> \o r)
             dg == QuotDigit(r1, b)
             rest == QuotFrom(a, i - 1, b, NatSub(r1, Trim(NatMul(b, dg))))
         IN  [q |-> <<dg>> \o rest.q, r |-> rest.r]
\* a divided by b > 0: the digits of a above the lowest Len(a) - Len(b) + 1
\* are a number below b and start as the remainder
NatQuot(a, b) ==
    LET i == IF Len(a) >= Len(b) THEN Len(a) - Len(b) + 1 ELSE 0
        dv == QuotFrom(a, i, b, Trim(SubSeq(a, i + 1, Len(a))))
    IN  [q |-> Trim([k \in DOMAIN dv.q |-> dv.q[Len(dv.q) + 1 - k]]),
         r |-> dv.r]

\* float(n) of a small integer n that is not negative
FloatOf(n) == Float(FALSE, Hex(n), 0)
\* a * b of two floats that are not negative
FloatMul(a, b) ==
    RoundNearestEven(FALSE, NatTimes(a.m, b.m), a.e + b.e, FALSE)
\* a / b for a float a that is not negative and a positive float b: the
\* quotient is computed with more bits than the significand holds, then
\* rounded
FloatQuot(a, b) ==
    LET g == 4 * ((15 + Len(b.m)) - Len(a.m))
        dv == NatQuot(ShiftLeft(a.m, g), b.m)
    IN  RoundNearestEven(FALSE, dv.q, (a.e - b.e) - g, dv.r # <<>>)
\* the sign of a float
Sign(x) == IF x.m = <<>> THEN 0 ELSE IF x.neg THEN -1 ELSE 1

(***************************************************************************)
(* evaluate_model (ml-trainer) on the test labels and predictions, given   *)
(* by the four cells of their confusion matrix. The metrics are float64.    *)
(***************************************************************************)
\* the test sets with the cells tn, fp, fn, tp; a test set is not empty
ConfusionMatrices ==
    {c \in [{"tn", "fp", "fn", "tp"} -> 0..MaxCount] :
        c["tn"] + c["fp"] + c["fn"] + c["tp"] > 0}

\* unique_labels(y_true, y_pred): the classes that occur in either vector
UniqueLabels(c) ==
    (IF c["tn"] + c["fp"] + c["fn"] > 0 THEN {0} ELSE {}) \cup
    (IF c["tp"] + c["fp"] + c["fn"] > 0 THEN {1} ELSE {})

\* line 141: classification_report raises ValueError when the number of
\* classes differs from the two target_names; line 149: unpacking the
\* ravel of a 1x1 matrix into four names raises too
ReportRaises(c) == Cardinality(UniqueLabels(c)) # 2

\* lines 149-152: the cells are integers, a quotient of two of them is the
\* float nearest to it, and every product, sum and quotient of floats is
\* rounded
Precision(c) ==
    IF c["tp"] + c["fp"] > 0
    THEN FloatQuot(FloatOf(c["tp"]), FloatOf(c["tp"] + c["fp"]))
    ELSE FloatZero
Recall(c) ==
    IF c["tp"] + c["fn"] > 0
    THEN FloatQuot(FloatOf(c["tp"]), FloatOf(c["tp"] + c["fn"]))
    ELSE FloatZero
F1(precision, recall) ==
    IF Sign(FloatAdd(precision, recall)) > 0
    THEN FloatQuot(FloatMul(FloatOf(2), FloatMul(precision, recall)),
                   FloatAdd(precision, recall))
    ELSE FloatZero

\* f"{x:.3f}" of a float x that is not negative: the thousandths of the
\* binary value of x, rounded to nearest, ties to even. 1000 * m is doubled
\* until the bits below the unit fill w whole digits
Thousandths(x) ==
    LET n == NatMul(NatMul(NatMul(x.m, 10), 10), 10)
    IN  IF x.e >= 0 THEN NatValue(ShiftLeft(n, x.e))
        ELSE LET k == 0 - x.e
                 j == (4 - (k % 4)) % 4
                 w == (k + j) \div 4
                 sh == NatMul(n, TwoTo(j))
                 q == IF w < Len(sh) THEN NatValue(SubSeq(sh, w + 1, Len(sh)))
                      ELSE 0
                 rest == \/ Digit(sh, w) % 8 # 0
                         \/ \E i \in 1..(w - 1) : Digit(sh, i) # 0
                 up == Digit(sh, w) >= 8 /\ (rest \/ q % 2 = 1)
             IN  IF up THEN q + 1 ELSE q

\* evaluate_model(y_true, y_pred, model_name): whether its try block
\* raised, the metrics it computed, the records it logged and the file it
\* wrote. The report raises before anything is logged
evaluate_model(c, model_name) ==
    IF ReportRaises(c)
    THEN [raised |-> TRUE, metrics |-> None,
          log |-> <<[level |-> "ERROR", msg |-> "Error evaluating model"]>>,
          file |-> None]
    ELSE LET cm == <<c["tn"], c["fp"], c["fn"], c["tp"]>>
             written == [precision |-> Precision(c),
                         recall |-> Recall(c),
                         f1_score |-> F1(Precision(c), Recall(c)),
                         confusion_matrix |-> cm]
         IN  [raised |-> FALSE, metrics |-> written,
              log |-> <<[level |-> "INFO", msg |-> "Model Performance",
                         model_name |-> model_name],
                        [level |-> "INFO", msg |-> "Confusion Matrix",
                         model_name |-> model_name, cm |-> cm],
                        [level |-> "INFO", msg |-> "Metrics",
                         model_name |-> model_name,
                         precision |-> Thousandths(written.precision),
                         recall |-> Thousandths(written.recall),
                         f1 |-> Thousandths(written.f1_score)]>>,
              file |-> [path |-> MetricsFile(model_name), json |-> written]]

\* evaluate_model on a test set, the file system taking the write
Evaluate(c, model_name) ==
    /\ applied = NoApplication
    /\ applied' = [fn |-> "evaluate_model", cm |-> c, model_name |-> model_name,
                   out |-> evaluate_model(c, model_name)]
    /\ UNCHANGED <<serverVars, pipelineVars, trainerVars, consumerVars>>

(***************************************************************************)
(* The z-scores of batch feature preparation (ml-trainer prepare_features, *)
(* lines 76, 84-85 and 89)                                                 *)
(***************************************************************************)
\* x.sum(): the readings added one by one from 0.0 (numpy's loop for fewer
\* than 8 values), each addition rounded
RECURSIVE FloatSum(_, _)
FloatSum(xs, acc) ==
    IF xs = <<>> THEN acc
    ELSE FloatSum(Tail(xs), FloatAdd(acc, Head(xs)))

\* x.mean(): the sum divided by the count
FloatMean(xs) == FloatDiv(FloatSum(xs, FloatZero), Len(xs))

ZScoreZero == [sign |-> 0, deviation |-> FloatZero]

\* (x - x.mean()) / x.std() and the fillna(0) of line 89. x.std() is the
\* sample deviation, computed from the squares of (mean - x): NaN for one
\* reading, 0 when every deviation is 0, positive otherwise. A division by
\* NaN, and 0 / 0, give NaN, which fillna replaces by 0; a deviation that
\* is not 0 divided by a positive number is not 0 and has its sign. The
\* z-score is kept as its sign and the deviation it was computed from
zscore(xs) ==
    LET mean == FloatMean(xs)
        ds == [i \in DOMAIN xs |-> FloatSub(xs[i], mean)]
    IN  [i \in DOMAIN xs |->
            IF Len(xs) < 2 \/ \A j \in DOMAIN xs : ds[j] = FloatZero
            THEN ZScoreZero
            ELSE [sign |-> Sign(ds[i]), deviation |-> ds[i]]]

\* the float that float.hex() prints as 0x1.<hs>p<exponent>, hs being its
\* hexadecimal digits
Double(hs, exponent) ==
    Float(FALSE, [i \in DOMAIN hs |-> hs[Len(hs) + 1 - i]] \o <<1>>,
          exponent - 4 * Len(hs))

\* the readings: 22.1, 21.3 and 24.0
Floats ==
    {Double(<<6, 1, 9, 9, 9, 9, 9, 9, 9, 9, 9, 9, 10>>, 4),
     Double(<<5, 4, 12, 12, 12, 12, 12, 12, 12, 12, 12, 12, 13>>, 4),
     Double(<<8>>, 4)}
\* the devices, by the rank of their device_id
Devices == {1, 2}
\* the frames that fetch_training_data returns: the rows of the table in
\* the order of their timestamps (ORDER BY timestamp), labelled 1, 2, ...
\* in that order; the temperature stands for either signal
Frames ==
    UNION {{[i \in 1..n |-> [device_id |-> f[i][1], timestamp |-> i,
                             temperature |-> f[i][2]]] :
               f \in [1..n -> Devices \X Floats]} : n \in 1..MaxRows}

\* the row i comes before the row j in df.sort_values(['device_id',
\* 'timestamp']); the sort is stable
SortsBefore(df, i, j) ==
    \/ df[i].device_id < df[j].device_id
    \/ /\ df[i].device_id = df[j].device_id
       /\ \/ df[i].timestamp < df[j].timestamp
          \/ df[i].timestamp = df[j].timestamp /\ i < j
\* line 76: the labels of the rows of df_sorted, first to last
sort_values(df) ==
    [p \in DOMAIN df |->
        CHOOSE k \in DOMAIN df :
            Cardinality({i \in DOMAIN df : SortsBefore(df, i, k)}) = p - 1]
\* the group of the device d: the labels of its rows in df_sorted, and
\* their temperatures
GroupLabels(df, d) ==
    SelectSeq(sort_values(df), LAMBDA k : df[k].device_id = d)
History(df, d) ==
    LET g == GroupLabels(df, d) IN [i \in DOMAIN g |-> df[g[i]].temperature]
\* the position of the label k in the sequence g that holds it
IndexOf(g, k) == CHOOSE i \in DOMAIN g : g[i] = k

\* lines 84 and 89, the column temp_zscore of X by row label. apply gives
\* the z-scores of the groups in the order of the rows of df_sorted;
\* reset_index(0, drop=True) labels them 1, 2, ... in that order, and the
\* assignment to the column gives the row of label k the z-score of
\* label k: the one computed for the k-th row of df_sorted
temp_zscore(df) ==
    LET order == sort_values(df)
        zs == [d \in Devices |->
                  IF History(df, d) = <<>> THEN <<>>
                  ELSE zscore(History(df, d))]
        result == [p \in DOMAIN df |->
                     LET d == df[order[p]].device_id
                     IN  zs[d][IndexOf(GroupLabels(df, d), order[p])]]
    IN  [k \in DOMAIN df |-> result[k]]

ZScores(df) ==
    /\ applied = NoApplication
    /\ applied' = [fn |-> "zscore", frame |-> df, out |-> temp_zscore(df)]
    /\ UNCHANGED <<serverVars, pipelineVars, trainerVars, consumerVars>>

(***************************************************************************)
(* The feature computations applied to a reading on their own              *)
(***************************************************************************)
\* readings, each as the flat payload that prepare_features takes and as
\* the message with sensor_data that PreprocessData takes: each signal a
\* number, null or missing; with and without device_id and timestamp
FeatureReadings ==
    {[payload |-> d @@ ts @@ te @@ vi,
      element |-> d @@ ts @@ [sensor_data |-> te @@ vi]] :
        d \in DeviceIdOpts, ts \in TimestampOpts,
        te \in TemperatureOpts, vi \in VibrationOpts}

\* prepare_features of the service and PreprocessData.process of the
\* pipeline called on the reading r at the instant clock
ComputeFeatures(r, clock) ==
    /\ applied = NoApplication
    /\ applied' = [fn |-> "features", reading |-> r, clock |-> clock,
                   server |-> prepare_features(r.payload, clock),
                   pipeline |-> PreprocessData(r.element)[1]]
    /\ UNCHANGED <<serverVars, pipelineVars, trainerVars, consumerVars>>

(***************************************************************************)
(* Specifications                                                          *)
(***************************************************************************)
Startup == \E k \in 0..4 : Main(k)

\* the scoring service serving POST /detect, one request at a time, any body
ServerNext ==
    \/ Startup
    \/ WsgiServe
    \/ Tick
    \/ \E body \in Bodies : DetectStart(1, body)
    \/ detect_anomalies(1)
    \/ Finally(1)

Spec == Init /\ [][ServerNext]_vars

\* the scoring service under concurrent requests to its three scoring
\* endpoints; the clock stands still, the counters do not depend on it
ConcNext ==
    \/ Startup
    \/ WsgiServe
    \/ \E t \in Threads :
          \/ \E body \in ConcBodies :
                \/ DetectStart(t, body)
                \/ TemperatureStart(t, body)
                \/ VibrationStart(t, body)
          \/ detect_anomalies(t)
          \/ detect_temperature_anomaly(t)
          \/ detect_vibration_anomaly(t)
          \/ Finally(t)

\* its bodies never reach the branch of get_json that flask415 decides
ConcInit == Init /\ flask415

SpecConc == ConcInit /\ [][ConcNext]_vars

\* the scoring service with every route of server.py, one request at a time
ServiceNext ==
    \/ Startup
    \/ WsgiServe
    \/ Tick
    \/ \E body \in ConcBodies :
          \/ DetectStart(1, body)
          \/ TemperatureStart(1, body)
          \/ VibrationStart(1, body)
    \/ detect_anomalies(1)
    \/ detect_temperature_anomaly(1)
    \/ detect_vibration_anomaly(1)
    \/ \E body \in AlertBodies : create_alert(1, body)
    \/ health_check(1)
    \/ metrics(1)
    \/ \E r \in PredictionRequests : predict(1, r)
    \/ Finally(1)

SpecService == Init /\ [][ServiceNext]_vars

\* python server.py answering two calls of POST /detect, one after the
\* other and each on a thread of its own, at any two instants
ScoringNext ==
    \/ Startup
    \/ Tick
    \/ \E t \in Threads, d \in ScoringPayloads :
          /\ calls = t - 1
          /\ t <= 2
          /\ \A u \in Threads : pc[u] = "idle"
          /\ DetectStart(t, JsonBody(d))
    \/ \E t \in Threads : detect_anomalies(t) \/ Finally(t)

SpecScoring == Init /\ [][ScoringNext]_vars

\* the pure functions of the three programs applied to any input
FunctionsNext ==
    \/ \E r \in FeatureReadings, clock \in Instants : ComputeFeatures(r, clock)
    \/ \E c \in ConfusionMatrices, model_name \in {"temperature", "vibration"} :
          Evaluate(c, model_name)
    \/ \E df \in Frames : ZScores(df)

SpecFunctions == Init /\ [][FunctionsNext]_vars

\* the consumer's callbacks on the threads of the subscriber's pool
ConsumerNext ==
    \E w \in Callbacks :
        \/ \E m \in RawMessages : process_message(w, m)
        \/ BuildRow(w)
        \/ \E bq \in BigQueryOutcomes : InsertRow(w, bq)
        \/ Ack(w)
        \/ Nack(w)

SpecConsumer == Init /\ [][ConsumerNext]_vars

\* run_pipeline and the job it runs
PipelineNext ==
    \/ \E m \in RawMessages : Publish(m)
    \/ run_pipeline
    \/ PubSubRead
    \/ \E i \in DOMAIN records : Parse(i)

SpecPipeline == Init /\ [][PipelineNext]_vars

\* the DoFns applied to one message, next to the scoring service
DoFnsNext ==
    \/ Startup
    \/ WsgiServe
    \/ Tick
    \/ \E m \in DoFnMessages : Feed(m)
    \/ ParseProcess
    \/ PreprocessProcess
    \/ DetectPost
    \/ DetectArrives
    \/ DetectReturns
    \/ AlertPost
    \/ AlertArrives
    \/ AlertReturns
    \/ FormatProcess
    \/ \E t \in Threads : detect_anomalies(t) \/ Finally(t)

SpecDoFns == Init /\ [][DoFnsNext]_vars

\* training runs, one after the other, on any table
TrainerNext ==
    \/ \E data \in Datasets : StartRun(data)
    \/ train_models

SpecTrainer == Init /\ [][TrainerNext]_vars

(***************************************************************************)
(* Properties                                                              *)
(***************************************************************************)
\* thread t holds the response to its request req[t] and has left the handler
Completed(t) == pc[t] = "idle" /\ req[t] # NoReq
AllIdle == \A t \in Threads : pc[t] = "idle"
AllLoaded ==
    /\ temp_model # None
    /\ temp_scaler # None
    /\ vibration_model # None
    /\ vibration_scaler # None
IsJson(t) == req[t].body.kind = "json"
Has(t, key) == IsJson(t) /\ key \in DOMAIN req[t].body.value
\* the payload's field is a number
HasNum(t, key) == Has(t, key) /\ IsNum(req[t].body.value[key])
\* the payload's timestamp, when it has one, is a date
TimestampFine(t) ==
    Has(t, "timestamp") => ~ToDatetimeRaises(req[t].body.value["timestamp"])

\* C1: in every 200 response of POST /detect, is_anomaly equals
\* (is_temp_anomaly OR is_vibration_anomaly)
C1_IsAnomalyIsOr ==
    \A t \in Threads :
        (req[t].endpoint = "/detect" /\ resp[t].status = 200)
        => resp[t].body.is_anomaly =
               (resp[t].body.is_temp_anomaly \/ resp[t].body.is_vibration_anomaly)

\* a 200 response of /detect in which exactly one signal is anomalous
C1_Witness ==
    \E t \in Threads :
        /\ req[t].endpoint = "/detect"
        /\ resp[t].status = 200
        /\ resp[t].body.is_temp_anomaly
        /\ ~resp[t].body.is_vibration_anomaly
        /\ resp[t].body.is_anomaly

\* C2: when any of the two models or two scalers is missing after startup,
\* no call of /detect, /detect/temperature or /detect/vibration returns a
\* prediction: every response is a failure
C2_RefusesAllScoring ==
    \A t \in Threads :
        (~AllLoaded /\ req[t].endpoint \in Endpoints) => resp[t].status # 200
\* the app is served without its artifacts, and the calls of two threads,
\* one to /detect/temperature and one to /detect/vibration with a reading
\* as payload, have been answered 500
C2_Witness ==
    /\ phase = "serving"
    /\ ~AllLoaded
    /\ \E t, u \in Threads :
          /\ Completed(t) /\ Completed(u)
          /\ req[t].endpoint = "/detect/temperature"
          /\ req[u].endpoint = "/detect/vibration"
          /\ HasNum(t, "temperature") /\ HasNum(u, "vibration")
          /\ resp[t].status = 500 /\ resp[u].status = 500

\* C3: no update of the counters is lost: once every call has returned, with
\* the models loaded, ml_predictions_total counts every call of /detect and
\* /detect/temperature and ml_predictions_success_total every 200 among them
CallsTo(e) == done[e, 200] + done[e, 400] + done[e, 500]
C3_NoLostUpdate ==
    (AllIdle /\ ~ModelsNotLoaded)
    => /\ ml_predictions_total =
              CallsTo("/detect") + CallsTo("/detect/temperature")
       /\ ml_predictions_success_total =
              done["/detect", 200] + done["/detect/temperature", 200]

\* two calls of /detect ran concurrently with the models loaded and both
\* have returned, one of them with a 200 and one without
C3_Witness ==
    /\ AllIdle
    /\ AllLoaded
    /\ \A t \in {1, 2} : Completed(t) /\ req[t].endpoint = "/detect"
    /\ resp[1].status = 200
    /\ resp[2].status = 500
    /\ ml_predictions_total = 2
    /\ ml_predictions_success_total = 1

\* C4: every call of /detect increments ml_predictions_total by one and
\* records one latency observation, whatever its outcome
C4_EveryCallCounted ==
    \A t \in Threads :
        (Completed(t) /\ req[t].endpoint = "/detect")
        => did[t].total = 1 /\ did[t].observed = 1

\* C5: a POST /detect without a request body gets a 400 response (stated
\* for a service whose models are loaded)
C5_AbsentBodyIs400 ==
    \A t \in Threads :
        (Completed(t) /\ req[t].endpoint = "/detect" /\ ~ModelsNotLoaded
           /\ req[t].body.kind = "none")
        => resp[t].status = 400

\* the payload of thread t carries temperature and vibration, and neither
\* device_id nor timestamp
NoOptionalFields(t) ==
    /\ HasNum(t, "temperature")
    /\ HasNum(t, "vibration")
    /\ ~Has(t, "device_id")
    /\ ~Has(t, "timestamp")

\* C6: with the models loaded, a /detect payload with temperature and
\* vibration but no device_id and no timestamp gets a 200 response whose
\* device_id is "unknown"
C6_OptionalFieldsDefault ==
    \A t \in Threads :
        (Completed(t) /\ req[t].endpoint = "/detect" /\ AllLoaded
           /\ NoOptionalFields(t))
        => /\ resp[t].status = 200
           /\ resp[t].body.device_id = Str("unknown")

C6_Witness ==
    \E t \in Threads :
        /\ Completed(t)
        /\ req[t].endpoint = "/detect"
        /\ AllLoaded
        /\ NoOptionalFields(t)
        /\ resp[t].status = 200
        /\ resp[t].body.device_id = Str("unknown")

\* the payload of thread t lacks temperature or vibration, and what it does
\* carry is well-formed
MissingSignal(t) ==
    /\ IsJson(t)
    /\ ~Has(t, "temperature") \/ ~Has(t, "vibration")
    /\ Has(t, "temperature") => HasNum(t, "temperature")
    /\ Has(t, "vibration") => HasNum(t, "vibration")
    /\ TimestampFine(t)

\* 0 stands in the result for each signal the payload lacks
ZeroSubstituted(t) ==
    /\ ~Has(t, "temperature") => resp[t].body.temperature = Num(0)
    /\ ~Has(t, "vibration") => resp[t].body.vibration = Num(0)

\* C7 as stated: a reading that lacks temperature or vibration is scored
\* with 0 in place of the missing value and gets a 200 response
C7_MissingSignalScored ==
    \A t \in Threads :
        (Completed(t) /\ req[t].endpoint = "/detect" /\ AllLoaded
           /\ MissingSignal(t))
        => resp[t].status = 200 /\ ZeroSubstituted(t)

\* C7 amended: a reading with at least one field that lacks temperature or
\* vibration is scored with 0 in place of the missing value and gets a 200
\* response
C7_NonEmptyMissingSignalScored ==
    \A t \in Threads :
        (Completed(t) /\ req[t].endpoint = "/detect" /\ AllLoaded
           /\ MissingSignal(t) /\ DOMAIN req[t].body.value # {})
        => resp[t].status = 200 /\ ZeroSubstituted(t)

\* a payload with a vibration and no temperature was scored
C7_Witness ==
    \E t \in Threads :
        /\ Completed(t)
        /\ req[t].endpoint = "/detect"
        /\ AllLoaded
        /\ MissingSignal(t)
        /\ ~Has(t, "temperature")
        /\ Has(t, "vibration")
        /\ resp[t].status = 200
        /\ resp[t].body.temperature = Num(0)

\* C8: every feature vector handed to a detector has all eight fields,
\* each of them a number
C8_FeaturesNumeric ==
    \A t \in Threads :
        loc[t].features # EmptyDict
        => \A f \in FeatureNames :
               f \in DOMAIN loc[t].features /\ IsNum(loc[t].features[f])

\* C9 as stated: a /detect call that repeats the request of the call before
\* it gets the identical response
C9_Idempotent ==
    \A t \in Threads :
        (Completed(t) /\ req[t].endpoint = "/detect" /\ prev[t] # NoResp)
        => resp[t] = prev[t]

\* C9 amended: a /detect call that repeats the request of the call before
\* it gets the identical response when the payload carries a timestamp
C9_IdempotentWithTimestamp ==
    \A t \in Threads :
        (Completed(t) /\ req[t].endpoint = "/detect" /\ prev[t] # NoResp
           /\ Has(t, "timestamp"))
        => resp[t] = prev[t]

\* a payload with a timestamp was scored twice, at different instants
C9_Witness ==
    \E t \in Threads :
        /\ Completed(t)
        /\ req[t].endpoint = "/detect"
        /\ Has(t, "timestamp")
        /\ prev[t].status = 200
        /\ resp[t].status = 200
        /\ now > 0

\* C10: once run_pipeline has returned, every record that Parse accepted
\* has been processed by enrich, score, alert and format, in that order,
\* and written to the sink
StageOrder == <<"parse", "enrich", "score", "alert", "format">>
C10_StagesInOrder ==
    \A i \in DOMAIN records :
        (ppc = "returned" /\ records[i].at # "errors:parse")
        => records[i].trace = StageOrder /\ records[i].at = "sink"

\* the batch is through: nothing left on the subscription and no record
\* that a transform of the running graph has yet to process
Drained ==
    /\ ppc = "running"
    /\ subscription = <<>>
    /\ records # <<>>
    /\ \A i \in DOMAIN records : ~Pending(records[i])
\* the position of a stage in the trace of record r, 0 when it never ran
StageAt(r, stage) ==
    IF InSeq(stage, r.trace)
    THEN CHOOSE k \in DOMAIN r.trace : r.trace[k] = stage
    ELSE 0
\* key is in both dicts with one value, or in neither
Same(d1, d2, key) ==
    /\ HasKey(d1, key) <=> HasKey(d2, key)
    /\ HasKey(d1, key) => d1[key] = d2[key]
\* the call of the scoring DoFn was made and failed: the service was
\* unreachable, timed out, or answered with a status other than 200
CallFailed(r) ==
    \/ r.call.kind \in {"ConnectionError", "Timeout"}
    \/ r.call.kind = "response" /\ r.call.status_code # 200
\* the DoFns are through with the message: it is a row, or at an errors
\* output
Through ==
    /\ applied.fn = "dofns"
    /\ applied.wait = "none"
    /\ \A stage \in Stages : applied.at # InputOf[stage]
\* the element's is_anomaly is true
Anomalous(e) == HasKey(e, "is_anomaly") /\ e["is_anomaly"] = TRUE

\* C11: Parse yields exactly one output for every raw message: the decoded
\* record, stamped with processed_at, on the main output when the message
\* decodes to a JSON object, and the raw message on the errors output
\* otherwise
C11_ParseOneOutput ==
    \A i \in DOMAIN records :
        LET r == records[i]
        IN  r.trace # <<>> =>
              /\ r.trace[1] = "parse"
              /\ Len(r.outs[1]) = 1
              /\ IF r.raw.json_ok /\ ~HasKey(r.raw.value, "type")
                 THEN /\ r.outs[1] = <<"main">>
                      /\ r.at = "parsed" =>
                            /\ DOMAIN r.element
                                 = DOMAIN r.raw.value \cup {"processed_at"}
                            /\ \A key \in DOMAIN r.raw.value :
                                  r.element[key] = r.raw.value[key]
                 ELSE /\ r.outs[1] = <<"errors">>
                      /\ r.at = "errors:parse"
                      /\ r.element = r.raw
C11_Witness ==
    /\ \E i \in DOMAIN records :
          records[i].at = "errors:parse" /\ records[i].raw = NotAnObject
    /\ \E i \in DOMAIN records :
          records[i].at = "errors:parse" /\ records[i].raw = Malformed
    /\ \E i \in DOMAIN records : records[i].at = "parsed"

\* C12: when the call of the scoring DoFn fails (service unreachable,
\* timeout, or a status other than 200), the DoFn yields the record on its
\* main output with is_anomaly, temp_anomaly_score and
\* vibration_anomaly_score as they were before it
C12_ScoreFailurePassesThrough ==
    (applied.fn = "dofns" /\ InSeq("score", applied.trace)
       /\ CallFailed(applied)) =>
        /\ applied.outs[StageAt(applied, "score")] = <<"main">>
        /\ applied.at = "detected" =>
              /\ Same(applied.element, applied.before, "is_anomaly")
              /\ Same(applied.element["sensor_data"],
                      applied.before["sensor_data"], "temp_anomaly_score")
              /\ Same(applied.element["sensor_data"],
                      applied.before["sensor_data"], "vibration_anomaly_score")
\* the service, its models loaded, answered 500 to the reading with a null
\* temperature, and the record went on as it was
C12_Witness ==
    /\ applied.fn = "dofns"
    /\ applied.at = "detected"
    /\ applied.raw = NullTemperature
    /\ applied.call = Response(ErrInternal.status, ErrInternal.body)
    /\ ml_predictions_total = 1
    /\ applied.element["is_anomaly"] = TRUE
    /\ ~HasKey(applied.element["sensor_data"], "temp_anomaly_score")

\* C13: a record whose scoring call failed is, once the DoFns are through
\* with it, a row with zero score fields (the record of a message without
\* is_anomaly included)
C13_OutageStillFormats ==
    (Through /\ CallFailed(applied)) =>
        /\ applied.at = "rows"
        /\ applied.element["temp_anomaly_score"] = 0
        /\ applied.element["vibration_anomaly_score"] = 0

\* C14: the alert DoFn posts an alert for a record exactly when the
\* record's is_anomaly is true, and whatever the post does the record is
\* yielded on the main output, to Format
C14_AlertIffAnomaly ==
    applied.fn = "dofns" =>
        /\ Len(alerts) <= 1
        /\ applied.wait = "alert" =>
              Len(alerts) = 1 /\ Anomalous(applied.element)
        /\ (~InSeq("alert", applied.trace) /\ applied.wait # "alert") =>
              alerts = <<>>
        /\ InSeq("alert", applied.trace) =>
              /\ Len(alerts) = 1 <=> Anomalous(applied.element)
              /\ applied.alert.kind # "none" <=> Anomalous(applied.element)
              /\ applied.outs[StageAt(applied, "alert")] = <<"main">>
              /\ applied.at \in {"alerted", "rows", "errors:format"}
\* the alert was posted and create_alert answered 200, but the post had
\* timed out: the record is a row all the same
C14_Witness ==
    /\ applied.fn = "dofns"
    /\ applied.alert.kind = "Timeout"
    /\ done["/alert", 200] = 1
    /\ applied.at = "rows"
    /\ Len(alerts) = 1

\* C15: once the batch is through, the sink holds as many rows as messages
\* passed Parse, and as many alerts were posted as rows have is_anomaly
\* true
C15_RowsEqualParsed ==
    Drained =>
      /\ Len(sink)
           = Cardinality({i \in DOMAIN records :
                            /\ records[i].outs # <<>>
                            /\ records[i].outs[1] = <<"main">>})
      /\ Len(alerts)
           = Cardinality({k \in DOMAIN sink : sink[k]["is_anomaly"] = TRUE})

\* C16: once the batch is through, every record that a stage routed to its
\* errors output has been printed by the merged error sequence
C16_ErrorsAllMerged ==
    \A i \in DOMAIN records :
        LET r == records[i]
        IN  (Drained /\ r.outs # <<>> /\ r.outs[Len(r.outs)] = <<"errors">>)
            => InSeq(r.element, diagnostics)

\* C17: every DoFn yields exactly one output per record it processes; a
\* record is processed by the stages in order, each at most once; after a
\* stage routed it to the errors output no stage processes it, and it is
\* no row
C17_ErrorsNeverRetried ==
    applied.fn = "dofns" =>
        LET n == Len(applied.trace)
        IN  /\ n <= Len(StageOrder)
            /\ applied.trace = SubSeq(StageOrder, 1, n)
            /\ \A k \in 1..n : Len(applied.outs[k]) = 1
            /\ \A k \in 1..(n - 1) : applied.outs[k] = <<"main">>
            /\ (n > 0 /\ applied.outs[n] = <<"errors">>)
                 => applied.at = ErrorsOf[applied.trace[n]]
            /\ applied.at = "rows" => n = Len(StageOrder)
\* the record without device_id, routed to the errors output of the
\* scoring DoFn, with which the DoFns are through
C17_Witness ==
    /\ Through
    /\ applied.raw = Anonymous
    /\ applied.at = "errors:score"
    /\ applied.trace = <<"parse", "enrich", "score">>
    /\ applied.outs = <<<<"main">>, <<"main">>, <<"errors">>>>

\* the fit of a signal raised in the running run
FitFailed == \E s \in {"temperature", "vibration"} : InSeq(<<s, "fit">>, tfailed)
\* the run that was started last has returned
RunOver == tpc = "idle" /\ runs > 0

\* C18: a run in which the fit of either signal failed has written no
\* model, scaler or metrics file of either signal
C18_FitFailurePublishesNothing ==
    FitFailed => \A f \in ArtifactFiles : files[f] # runs

\* C19: the stage of a run that fails is its last stage, and the log of
\* the run never says that the models were trained successfully
C19_FailureAbortsRun ==
    tfailed # <<>> =>
      /\ tstages[Len(tstages)] = tfailed[1]
      /\ ~InSeq("INFO All models trained successfully", tlog)

\* C20: after a run in which a stage failed, every model, scaler and
\* metrics file is as the run found it
C20_FailedRunLeavesArtifacts ==
    (RunOver /\ tfailed # <<>>) => files = files0

\* C21: a run on a table that is empty or cannot be queried ends at the
\* fetch: no feature preparation, no fit, no file written, and train_models
\* returns
C21_NoDataAbortsBeforePrepare ==
    ((~table.query_ok \/ table.empty) /\ tstages # <<>>) =>
      /\ tstages = << <<"all", "fetch">> >>
      /\ files = files0
      /\ tpc = "idle"
      /\ InSeq("WARNING No training data available", tlog)
C21_Witness ==
    /\ RunOver
    /\ table.query_ok /\ table.empty
    /\ tstages = << <<"all", "fetch">> >>
    /\ \A f \in ArtifactFiles : files[f] \in 1..MaxRuns

\* C22: once serving, no handler of any route assigns one of the four
\* globals: a step that changes a model or a scaler is a step of load_models
C22_GlobalsReadOnlyAfterLoad ==
    [][(globals' # globals) =>
          (phase = "startup" /\ \E k \in 1..4 : load_models(k))]_vars
\* all four loaded, and /predict and /detect have both returned predictions
C22_Witness ==
    /\ AllLoaded
    /\ done["/predict", 200] > 0
    /\ done["/detect", 200] > 0
    /\ globals = <<TemperatureModelPkl, TemperatureScalerPkl,
                   VibrationModelPkl, VibrationScalerPkl>>
\* the payloads a and b differ in the field key and in nothing else
DiffersOnlyIn(a, b, key) == a # b /\ Without(a, key) = Without(b, key)
\* the calls of the threads t and u to /detect have both been answered 200
BothScored(t, u) ==
    /\ Completed(t) /\ Completed(u)
    /\ req[t].endpoint = "/detect" /\ req[u].endpoint = "/detect"
    /\ IsJson(t) /\ IsJson(u)
    /\ resp[t].status = 200 /\ resp[u].status = 200
\* the answers agree on the scoring of the temperature, of the vibration
SameTemperatureScoring(t, u) ==
    /\ resp[t].body.is_temp_anomaly = resp[u].body.is_temp_anomaly
    /\ resp[t].body.temp_anomaly_score = resp[u].body.temp_anomaly_score
SameVibrationScoring(t, u) ==
    /\ resp[t].body.is_vibration_anomaly = resp[u].body.is_vibration_anomaly
    /\ resp[t].body.vibration_anomaly_score =
          resp[u].body.vibration_anomaly_score

\* C23 as stated: of two scored /detect payloads that differ only in
\* vibration, the temperature verdict and score are equal; of two that
\* differ only in temperature, the vibration verdict and score are equal
C23_SignalsScoredIndependently ==
    \A t, u \in Threads :
        BothScored(t, u) =>
          /\ DiffersOnlyIn(req[t].body.value, req[u].body.value, "vibration")
                => SameTemperatureScoring(t, u)
          /\ DiffersOnlyIn(req[t].body.value, req[u].body.value, "temperature")
                => SameVibrationScoring(t, u)

\* C23 amended: the same, of two scored /detect payloads that carry a
\* timestamp
C23_TimestampedScoredIndependently ==
    \A t, u \in Threads :
        (BothScored(t, u) /\ Has(t, "timestamp") /\ Has(u, "timestamp")) =>
          /\ DiffersOnlyIn(req[t].body.value, req[u].body.value, "vibration")
                => SameTemperatureScoring(t, u)
          /\ DiffersOnlyIn(req[t].body.value, req[u].body.value, "temperature")
                => SameVibrationScoring(t, u)
\* two scored payloads with a timestamp that differ only in vibration: the
\* vibration verdicts differ, the temperature is anomalous in both
C23_Witness ==
    \E t, u \in Threads :
        /\ BothScored(t, u)
        /\ Has(t, "timestamp") /\ Has(u, "timestamp")
        /\ DiffersOnlyIn(req[t].body.value, req[u].body.value, "vibration")
        /\ resp[t].body.is_vibration_anomaly
        /\ ~resp[u].body.is_vibration_anomaly
        /\ resp[t].body.is_temp_anomaly
        /\ resp[u].body.is_temp_anomaly
\* the features of the signals in the dict f are the stateless ones
Stateless(f) ==
    /\ f["temp_ma"] = f["temperature"]
    /\ f["vibration_ma"] = f["vibration"]
    /\ f["temp_zscore"] = Num(0)
    /\ f["vibration_zscore"] = Num(0)
\* the service and the pipeline both computed features for the reading,
\* the stateless ones, with the reading's signals and equal values
FeaturesAgree ==
    LET s == applied.server
        p == applied.pipeline
        r == applied.reading
    IN  /\ s.ok
        /\ p.tag = "main"
        /\ Stateless(s.f)
        /\ Stateless(p.element["sensor_data"])
        /\ \A k \in {"temperature", "vibration"} :
              /\ HasKey(r.payload, k)
              /\ s.f[k] = r.payload[k]
              /\ p.element["sensor_data"][k] = r.payload[k]
\* the reading carries both signals and a timestamp that is a date, if any
WellFormed(r) ==
    /\ ~LacksSignal(r, "temperature")
    /\ ~LacksSignal(r, "vibration")
    /\ HasKey(r, "timestamp") => ~ToDatetimeRaises(r["timestamp"])

C25_EvaluationAlwaysProducesMetrics ==
    applied.fn = "evaluate_model" =>
        LET c == applied.cm
            m == applied.out.metrics
        IN  /\ ~applied.out.raised
            /\ m # None
            /\ (c["tp"] + c["fp"] = 0) => m.precision = FloatZero
            /\ (c["tp"] + c["fn"] = 0) => m.recall = FloatZero
            /\ Sign(FloatAdd(m.precision, m.recall)) = 0
                  => m.f1_score = FloatZero
Constant(xs) == \A i, j \in DOMAIN xs : xs[i] = xs[j]

\* C26: a device whose history of two or more readings is constant gets
\* the z-score 0 for every reading
C26_ConstantHistoryZeroZScore ==
    applied.fn = "zscore" =>
        \A d \in Devices :
            (Len(History(applied.frame, d)) >= 2
               /\ Constant(History(applied.frame, d)))
            => \A k \in DOMAIN applied.frame :
                  applied.frame[k].device_id = d
                  => applied.out[k] = ZScoreZero
NoneLoaded ==
    /\ temp_model = None
    /\ temp_scaler = None
    /\ vibration_model = None
    /\ vibration_scaler = None

\* C27: load_models is all-or-nothing: after a load that failed (the
\* process has exited on its False) all four globals are unset, and in no
\* state are only some of the four loaded
C27_LoadAllOrNothing ==
    /\ phase = "exited" => NoneLoaded
    /\ AllLoaded \/ NoneLoaded
CountersOrdered ==
    /\ ml_predictions_success_total <= ml_predictions_total
    /\ ml_anomalies_detected_total <= ml_predictions_total
    /\ ml_temperature_anomalies_total <= ml_anomalies_detected_total
    /\ ml_vibration_anomalies_total <= ml_anomalies_detected_total
NoCounterDecreases ==
    /\ ml_predictions_total' >= ml_predictions_total
    /\ ml_predictions_success_total' >= ml_predictions_success_total
    /\ ml_anomalies_detected_total' >= ml_anomalies_detected_total
    /\ ml_temperature_anomalies_total' >= ml_temperature_anomalies_total
    /\ ml_vibration_anomalies_total' >= ml_vibration_anomalies_total

\* C28: under concurrent calls of the three scoring endpoints, in every
\* state successes and anomalies are at most the predictions, temperature
\* and vibration anomalies at most the anomalies, and no step lowers a
\* counter
C28_CountersOrdered == []CountersOrdered /\ [][NoCounterDecreases]_vars
\* two calls in flight that have both counted their anomaly, one of them
\* its temperature anomaly too, neither yet its success
C28_Witness ==
    /\ \A t \in {1, 2} : pc[t] # "idle"
    /\ ml_predictions_total = 2
    /\ ml_anomalies_detected_total = 2
    /\ ml_temperature_anomalies_total = 1
    /\ ml_predictions_success_total = 0
\* C29: a run that has written the model and the scaler of a signal has
\* written the metrics of that signal too, so that after a run the three
\* files of a signal are of one run
C29_ModelComesWithMetrics ==
    RunOver =>
        \A s \in {"temperature", "vibration"} :
            (files[ModelFile(s)] = runs /\ files[ScalerFile(s)] = runs) =>
                files[MetricsFile(s)] = runs
\* C30: process_message settles every delivery once, with ack or with
\* nack; a delivery is acked only when its row was stored without error,
\* and one whose insert failed is nacked
C30_AckOnlyWhenInserted ==
    \A i \in DOMAIN settled :
        LET d == settled[i]
        IN  /\ d.acks + d.nacks = 1
            /\ d.acks = 1 => d.bq = "stored"
            /\ d.bq \in {"errors", "raises"} => d.nacks = 1
====
